---------------------------- MODULE Spec2Model ----------------------------
(***************************************************************************)
(* Model of the Omega-style shared cell state of omega-scheduler:          *)
(* src/src/core/cell_state.py (Machine, Task, Job, Transaction, CellState) *)
(* and the schedulers that work on it through BaseScheduler.attempt_schedule*)
(* (src/src/schedulers/base_scheduler.py).                                 *)
(*                                                                         *)
(* The authoritative CellState is driven by its public operations:         *)
(* add_machine, add_job, commit_transaction and release_task.  Every       *)
(* operation runs under CellState.lock, so each is one atomic action.      *)
(* memory_gb / memory_req are floats in the source; the model uses whole   *)
(* gigabytes, for which float addition and subtraction are exact.          *)
(***************************************************************************)
EXTENDS Integers, Sequences, FiniteSets, TLC

\* Python's None
None == "None"

VARIABLES
    machines,            \* CellState.machines : id -> Machine
    jobs,                \* CellState.jobs     : ids of the registered jobs
    tasks,               \* CellState.tasks    : id -> Task (assigned_machine)
    version,             \* CellState.version
    transaction_log,     \* CellState.transaction_log (scheduler id of each entry)
    total_commits,       \* CellState.total_commits
    total_conflicts,     \* CellState.total_conflicts
    total_transactions,  \* CellState.total_transactions
    last,                \* the last call on the CellState and what it returned
    schedulers,          \* scheduler id -> the scheduler and its attempt_schedule call
    job_queues,          \* ClusterSimulator.job_queues : scheduler id -> jobs
    sim,                 \* the ClusterSimulator and its simpy environment
    failed_machines      \* FailureSimulator.failed_machines

vars == <<machines, jobs, tasks, version, transaction_log, total_commits,
          total_conflicts, total_transactions, last, schedulers, job_queues,
          sim, failed_machines>>

-----------------------------------------------------------------------------
(* Bounds of the model *)

\* commit_transaction calls made in one behaviour
MaxTransactions == 2

\* the max_retries argument of attempt_schedule (the simulator passes 5)
max_retries == 2

-----------------------------------------------------------------------------
(* The cluster and the workload the operations are exercised on *)

MachineIds == {"m1", "m2"}

\* Machine(id, cpu_cores, gpu_count, memory_gb)
MachineSpec ==
    [m \in MachineIds |->
        IF m = "m1" THEN [cpu_cores |-> 4, gpu_count |-> 1, memory_gb |-> 4]
                    ELSE [cpu_cores |-> 2, gpu_count |-> 0, memory_gb |-> 2]]

TaskIds == {"t1", "t2"}

\* Task(id, job_id, cpu_req, gpu_req, memory_req, duration, ...).  t1 fits
\* either machine; t2 fits m1 only and exceeds every capacity of m2; t1 and
\* t2 together exceed the cpu of m1.
\* t3 and t4 are the two tasks of the gang job j3 the schedulers are given;
\* each fits either machine, both fit m1 together.  t5 and t6 are the tasks
\* of the job j4 the simulator is given: t5 is as t1, t6 as t2.
\* t7 and t8 are the tasks of the job j5: t7 asks for more gpus than any
\* machine has, t8 is as t1 and carries constraints only m1 satisfies.
\* duration is in tenths of a second, the unit of the simulator's clock.
\* constraints is the dict of the task: its keys, and the values of min_cpu,
\* min_memory and requires_gpu (read only for a key the dict has); the tasks
\* t1 .. t7 have the default {}.
NoConstraints == [keys |-> {}, min_cpu |-> 0, min_memory |-> 0,
                  requires_gpu |-> FALSE]

TaskSpec ==
    [t \in TaskIds \cup {"t3", "t4", "t5", "t6", "t7", "t8"} |->
        IF t = "t1"
        THEN [job_id |-> "j1", cpu_req |-> 2, gpu_req |-> 0, memory_req |-> 2,
              duration |-> 100, constraints |-> NoConstraints]
        ELSE IF t = "t2"
        THEN [job_id |-> "j2", cpu_req |-> 3, gpu_req |-> 1, memory_req |-> 3,
              duration |-> 100, constraints |-> NoConstraints]
        ELSE IF t = "t3"
        THEN [job_id |-> "j3", cpu_req |-> 2, gpu_req |-> 0, memory_req |-> 2,
              duration |-> 5, constraints |-> NoConstraints]
        ELSE IF t = "t4"
        THEN [job_id |-> "j3", cpu_req |-> 2, gpu_req |-> 0, memory_req |-> 2,
              duration |-> 10, constraints |-> NoConstraints]
        ELSE IF t = "t5"
        THEN [job_id |-> "j4", cpu_req |-> 2, gpu_req |-> 0, memory_req |-> 2,
              duration |-> 5, constraints |-> NoConstraints]
        ELSE IF t = "t6"
        THEN [job_id |-> "j4", cpu_req |-> 3, gpu_req |-> 1, memory_req |-> 3,
              duration |-> 5, constraints |-> NoConstraints]
        ELSE IF t = "t7"
        THEN [job_id |-> "j5", cpu_req |-> 3, gpu_req |-> 2, memory_req |-> 3,
              duration |-> 5, constraints |-> NoConstraints]
        ELSE [job_id |-> "j5", cpu_req |-> 2, gpu_req |-> 0, memory_req |-> 2,
              duration |-> 5,
              constraints |-> [keys |-> {"min_cpu", "min_memory",
                                         "requires_gpu", "machine_type"},
                               min_cpu |-> 4, min_memory |-> 4,
                               requires_gpu |-> TRUE]]]

JobIds == {"j1", "j2"}

\* Job.tasks
JobTasks(j) == {t \in TaskIds : TaskSpec[t].job_id = j}

SchedulerIds == {"scheduler1"}

\* Job(id, tasks, ..., gang_schedule) of the jobs given to the simulator
JobSpec ==
    [j \in JobIds \cup {"j3", "j4", "j5"} |->
        IF j = "j1" THEN [tasks |-> <<"t1">>, gang_schedule |-> FALSE]
        ELSE IF j = "j2" THEN [tasks |-> <<"t2">>, gang_schedule |-> FALSE]
        ELSE IF j = "j3" THEN [tasks |-> <<"t3", "t4">>, gang_schedule |-> TRUE]
        ELSE IF j = "j4" THEN [tasks |-> <<"t5", "t6">>, gang_schedule |-> FALSE]
        ELSE [tasks |-> <<"t7", "t8">>, gang_schedule |-> FALSE]]

\* the schedulers of the simulator
SimSchedulerIds == {"scheduler1", "scheduler2"}

\* iteration order of the machines dict: the order of the add_machine calls
MachineOrder == <<"m1", "m2">>

-----------------------------------------------------------------------------
(* Machine *)

\* Machine.__init__ defaults: nothing allocated, version 0, no tasks
NewMachine(m) ==
    [cpu_cores |-> MachineSpec[m].cpu_cores,
     gpu_count |-> MachineSpec[m].gpu_count,
     memory_gb |-> MachineSpec[m].memory_gb,
     allocated_cpu |-> 0, allocated_gpu |-> 0, allocated_memory |-> 0,
     version |-> 0, tasks |-> {}]

available_cpu(machine) == machine.cpu_cores - machine.allocated_cpu

available_gpu(machine) == machine.gpu_count - machine.allocated_gpu

available_memory(machine) == machine.memory_gb - machine.allocated_memory

can_fit(machine, cpu, gpu, memory) ==
    /\ available_cpu(machine) >= cpu
    /\ available_gpu(machine) >= gpu
    /\ available_memory(machine) >= memory

-----------------------------------------------------------------------------
(* CellState.__init__ *)

\* `last` records the latest call on the cell state: the operation, its
\* arguments (the task id of release_task; the transaction and the
\* incremental flag of commit_transaction) and what commit_transaction gave
\* back: the pair (ok, conflicts), or raised when it ended in an exception.
\* `before` keeps the machines commit_transaction was called on.
\* no ClusterSimulator has been built
NoSimulator == <<>>

NoTransaction == [scheduler_id |-> None, placements |-> <<>>,
                  machine_versions |-> <<>>]

NoCall == [op |-> "init", task_id |-> None, txn |-> NoTransaction,
           incremental |-> TRUE, ok |-> TRUE, conflicts |-> <<>>,
           raised |-> FALSE, before |-> <<>>]

Init ==
    /\ machines = <<>>
    /\ jobs = {}
    /\ tasks = <<>>
    /\ version = 0
    /\ transaction_log = <<>>
    /\ total_commits = 0
    /\ total_conflicts = 0
    /\ total_transactions = 0
    /\ last = NoCall
    /\ schedulers = <<>>
    /\ job_queues = <<>>
    /\ sim = NoSimulator
    /\ failed_machines = {}

-----------------------------------------------------------------------------
(* CellState.add_machine / CellState.add_job *)

\* add_machine: self.machines[machine.id] = machine.  Machines are loaded
\* once each (the callers build one Machine per id), so an id is added only
\* while it is absent.
AddMachine(m) ==
    /\ m \notin DOMAIN machines
    /\ machines' = (m :> NewMachine(m)) @@ machines
    /\ last' = [NoCall EXCEPT !.op = "add_machine"]
    /\ UNCHANGED <<jobs, tasks, version, transaction_log, total_commits,
                   total_conflicts, total_transactions, schedulers, job_queues,
                   sim, failed_machines>>

\* add_job: self.jobs[job.id] = job; self.tasks[task.id] = task for each task.
\* A job enters with its tasks unassigned.
AddJob(j) ==
    /\ j \notin jobs
    /\ jobs' = jobs \cup {j}
    /\ tasks' = [t \in JobTasks(j) |-> [assigned_machine |-> None]] @@ tasks
    /\ last' = [NoCall EXCEPT !.op = "add_job"]
    /\ UNCHANGED <<machines, version, transaction_log, total_commits,
                   total_conflicts, total_transactions, schedulers, job_queues,
                   sim, failed_machines>>

-----------------------------------------------------------------------------
(* Transaction *)

\* one entry of Transaction.placements: (task, machine_id)
Placement == [task : TaskIds, machine_id : MachineIds]

\* Transaction.placements: the transactions exercised hold no placement, one
\* placement or two placements (any tasks, any machines, repeats included)
PlacementSeqs ==
    {<<>>} \cup {<<p>> : p \in Placement} \cup {<<p, q>> : p, q \in Placement}

TouchedMachines(placements) ==
    {placements[i].machine_id : i \in 1..Len(placements)}

\* The version add_placement records for machine m is one the caller read
\* off the machine earlier.  commit_transaction only tests it for equality
\* with the live version, so the current version and the one before it (a
\* stale read) stand for all of them; 0 is recorded for a machine that is
\* not in the cell.
ObservableVersions(m) ==
    IF m \in DOMAIN machines
    THEN {v \in {machines[m].version - 1, machines[m].version} : v >= 0}
    ELSE {0}

\* Transactions built by add_placement: machine_versions has an entry for
\* every machine a placement names (the last add_placement on a machine wins).
Transactions ==
    UNION {
      {[scheduler_id |-> s, placements |-> ps, machine_versions |-> mv] :
          s \in SchedulerIds,
          mv \in {f \in [TouchedMachines(ps) ->
                            UNION {ObservableVersions(m) : m \in MachineIds}] :
                     \A m \in TouchedMachines(ps) : f[m] \in ObservableVersions(m)}}
      : ps \in PlacementSeqs}

-----------------------------------------------------------------------------
(* CellState.commit_transaction *)

\* lines 171-188: one placement passes the checks against the live machines.
\* machine_versions.get(machine_id) is never None here: add_placement records
\* a version for every machine it is given.  Nothing in the loop reads the
\* task table or changes a machine.
Accepted(ms, txn, p) ==
    /\ p.machine_id \in DOMAIN ms
    /\ ms[p.machine_id].version = txn.machine_versions[p.machine_id]
    /\ can_fit(ms[p.machine_id], TaskSpec[p.task].cpu_req,
               TaskSpec[p.task].gpu_req, TaskSpec[p.task].memory_req)

\* the entries of seq at the positions in I, in the order of seq (a list
\* built by appending inside a loop over seq)
SeqFilter(seq, I) ==
    LET F[i \in 0..Len(seq)] ==
          IF i = 0 THEN <<>>
          ELSE IF i \in I THEN Append(F[i - 1], seq[i]) ELSE F[i - 1]
    IN F[Len(seq)]

TaskIdsOf(placements) == [i \in 1..Len(placements) |-> placements[i].task]

\* conflicts: the task ids of the rejected placements, in placement order
Conflicts(ms, txn) ==
    TaskIdsOf(SeqFilter(txn.placements,
                        {i \in 1..Len(txn.placements) :
                            ~Accepted(ms, txn, txn.placements[i])}))

\* a commit that takes every placement for successful
SuccessfulPlacements_All(ms, txn) == txn.placements

\* successful_placements, in placement order
SuccessfulPlacements(ms, txn) ==
    SeqFilter(txn.placements,
              {i \in 1..Len(txn.placements) :
                  Accepted(ms, txn, txn.placements[i])})

\* lines 198-203: the machine after one placement is applied to it
PlaceOn(machine, t) ==
    [machine EXCEPT
        !.allocated_cpu = @ + TaskSpec[t].cpu_req,
        !.allocated_gpu = @ + TaskSpec[t].gpu_req,
        !.allocated_memory = @ + TaskSpec[t].memory_req,
        !.tasks = @ \cup {t},
        !.version = @ + 1]

\* lines 197-206: the apply loop.  self.tasks[task.id] raises KeyError for a
\* task that was never registered, after the machine has been changed; the
\* loop ends there and the exception leaves commit_transaction.
RECURSIVE ApplyPlacements(_, _, _)
ApplyPlacements(ms, ts, placements) ==
    IF placements = <<>> THEN [machines |-> ms, tasks |-> ts, raised |-> FALSE]
    ELSE LET p  == Head(placements)
             m2 == [ms EXCEPT ![p.machine_id] = PlaceOn(@, p.task)]
         IN IF p.task \notin DOMAIN ts
            THEN [machines |-> m2, tasks |-> ts, raised |-> TRUE]
            ELSE ApplyPlacements(m2,
                     [ts EXCEPT ![p.task].assigned_machine = p.machine_id],
                     Tail(placements))

\* a gate that never aborts: a non-incremental commit goes on to apply the
\* placements that passed
Aborts_Never(incremental, conflicts) == FALSE

\* line 191: the all-or-nothing gate
Aborts(incremental, conflicts) == ~incremental /\ conflicts # <<>>

\* The whole of commit_transaction as a function of the cell state: the
\* fields after the call, the returned pair (ok, conflicts) and whether the
\* call raised instead of returning.
CommitOutcome(txn, incremental) ==
    LET conflicts  == Conflicts(machines, txn)
        successful == SuccessfulPlacements(machines, txn)
        unchanged  == [machines |-> machines, tasks |-> tasks,
                       version |-> version, transaction_log |-> transaction_log,
                       total_commits |-> total_commits,
                       total_conflicts |-> total_conflicts,
                       total_transactions |-> total_transactions + 1,
                       ok |-> FALSE, conflicts |-> <<>>, raised |-> FALSE]
        applied    == ApplyPlacements(machines, tasks, successful)
    IN IF Aborts(incremental, conflicts)
       THEN [unchanged EXCEPT
                !.total_conflicts = @ + Len(txn.placements),
                !.conflicts = TaskIdsOf(txn.placements)]
       ELSE IF successful # <<>> /\ applied.raised
       THEN [unchanged EXCEPT
                !.machines = applied.machines,
                !.tasks = applied.tasks,
                !.raised = TRUE]
       ELSE [unchanged EXCEPT
                !.machines = applied.machines,
                !.tasks = applied.tasks,
                !.version = IF successful # <<>> THEN @ + 1 ELSE @,
                !.total_commits = IF successful # <<>> THEN @ + 1 ELSE @,
                !.transaction_log =
                    IF successful # <<>> THEN Append(@, txn.scheduler_id) ELSE @,
                !.total_conflicts = @ + Len(conflicts),
                !.ok = (Len(conflicts) = 0),
                !.conflicts = conflicts]

\* one call of commit_transaction on the cell state
CommitCall(txn, incremental) ==
    LET out == CommitOutcome(txn, incremental)
    IN /\ machines' = out.machines
       /\ tasks' = out.tasks
       /\ version' = out.version
       /\ transaction_log' = out.transaction_log
       /\ total_commits' = out.total_commits
       /\ total_conflicts' = out.total_conflicts
       /\ total_transactions' = out.total_transactions
       /\ last' = [op |-> "commit_transaction", task_id |-> None, txn |-> txn,
                   incremental |-> incremental, ok |-> out.ok,
                   conflicts |-> out.conflicts, raised |-> out.raised,
                   before |-> machines]
       /\ UNCHANGED jobs

\* commit_transaction called directly by a client of the cell state
CommitTransaction(txn, incremental) ==
    /\ total_transactions < MaxTransactions
    /\ CommitCall(txn, incremental)
    /\ UNCHANGED <<schedulers, job_queues, sim, failed_machines>>

-----------------------------------------------------------------------------
(* CellState.release_task *)

\* a release that gives the resources back without the version bump
ReleaseFrom_KeepsVersion(machine, t) ==
    [machine EXCEPT
        !.allocated_cpu = @ - TaskSpec[t].cpu_req,
        !.allocated_gpu = @ - TaskSpec[t].gpu_req,
        !.allocated_memory = @ - TaskSpec[t].memory_req,
        !.tasks = @ \ {t}]

\* lines 224-229: the machine after the task has been taken off it
ReleaseFrom(machine, t) ==
    [machine EXCEPT
        !.allocated_cpu = @ - TaskSpec[t].cpu_req,
        !.allocated_gpu = @ - TaskSpec[t].gpu_req,
        !.allocated_memory = @ - TaskSpec[t].memory_req,
        !.tasks = @ \ {t},
        !.version = @ + 1]

\* a release that leaves task.assigned_machine set
ReleaseOutcome_KeepsAssignment(task_id) ==
    IF task_id \notin DOMAIN tasks \/ tasks[task_id].assigned_machine = None
    THEN [machines |-> machines, tasks |-> tasks]
    ELSE [machines |-> [machines EXCEPT ![tasks[task_id].assigned_machine] =
                            ReleaseFrom(@, task_id)],
          tasks |-> tasks]

\* the machines and tasks after release_task(task_id)
ReleaseOutcome(task_id) ==
    IF task_id \notin DOMAIN tasks \/ tasks[task_id].assigned_machine = None
    THEN [machines |-> machines, tasks |-> tasks]
    ELSE [machines |-> [machines EXCEPT ![tasks[task_id].assigned_machine] =
                            ReleaseFrom(@, task_id)],
          tasks |-> [tasks EXCEPT ![task_id].assigned_machine = None]]

\* release_task(task_id) on the cell state
ReleaseCall(task_id) ==
    LET out == ReleaseOutcome(task_id)
    IN /\ machines' = out.machines
       /\ tasks' = out.tasks
       /\ last' = [NoCall EXCEPT !.op = "release_task", !.task_id = task_id]
       /\ UNCHANGED <<jobs, version, transaction_log, total_commits,
                      total_conflicts, total_transactions>>

\* release_task called directly by a client of the cell state
ReleaseTask(task_id) ==
    /\ ReleaseCall(task_id)
    /\ UNCHANGED <<schedulers, job_queues, sim, failed_machines>>

-----------------------------------------------------------------------------
(* The cell state under any sequence of calls *)

Next ==
    \/ \E m \in MachineIds : AddMachine(m)
    \/ \E j \in JobIds : AddJob(j)
    \/ \E txn \in Transactions, incremental \in BOOLEAN :
          CommitTransaction(txn, incremental)
    \/ \E t \in TaskIds : ReleaseTask(t)

Spec == Init /\ [][Next]_vars

-----------------------------------------------------------------------------
(* Vocabulary of the properties *)

Range(seq) == {seq[i] : i \in 1..Len(seq)}

\* the sum of f[x] over the x in S
RECURSIVE SumOver(_, _)
SumOver(S, f) ==
    IF S = {} THEN 0
    ELSE LET x == CHOOSE y \in S : TRUE
         IN f[x] + SumOver(S \ {x}, f)

CpuReq(t) == TaskSpec[t].cpu_req
GpuReq(t) == TaskSpec[t].gpu_req
MemoryReq(t) == TaskSpec[t].memory_req

\* the placement at position i of txn passes every check of the validation
\* loop against the live cell state: known machine, recorded version equal to
\* the live version, demand within the live free capacity
ValidAt(txn, i) ==
    LET p == txn.placements[i]
    IN /\ p.machine_id \in DOMAIN machines
       /\ txn.machine_versions[p.machine_id] = machines[p.machine_id].version
       /\ CpuReq(p.task) <= machines[p.machine_id].cpu_cores
                              - machines[p.machine_id].allocated_cpu
       /\ GpuReq(p.task) <= machines[p.machine_id].gpu_count
                              - machines[p.machine_id].allocated_gpu
       /\ MemoryReq(p.task) <= machines[p.machine_id].memory_gb
                                 - machines[p.machine_id].allocated_memory

Positions(txn) == 1..Len(txn.placements)

\* positions of txn whose placement names machine m
PositionsOn(txn, m) == {i \in Positions(txn) : txn.placements[i].machine_id = m}

\* the ids of the placements at the positions I, in placement order
IdsAt(txn, I) ==
    LET F[i \in 0..Len(txn.placements)] ==
          IF i = 0 THEN <<>>
          ELSE IF i \in I THEN Append(F[i - 1], txn.placements[i].task)
               ELSE F[i - 1]
    IN F[Len(txn.placements)]

\* machine m after the placements at the positions I have been added to it
MachineWith(txn, m, I) ==
    LET On  == I \cap PositionsOn(txn, m)
        Cpu == [i \in On |-> CpuReq(txn.placements[i].task)]
        Gpu == [i \in On |-> GpuReq(txn.placements[i].task)]
        Mem == [i \in On |-> MemoryReq(txn.placements[i].task)]
    IN [machines[m] EXCEPT
           !.allocated_cpu = @ + SumOver(On, Cpu),
           !.allocated_gpu = @ + SumOver(On, Gpu),
           !.allocated_memory = @ + SumOver(On, Mem),
           !.tasks = @ \cup {txn.placements[i].task : i \in On},
           !.version = @ + Cardinality(On)]

\* every placement at the positions I has been applied, and nothing else:
\* ms and ts are the machines and tasks after the call.  Each machine carries
\* the added demand, task ids and version steps, and each placed task is
\* assigned to a machine one of its placements names.
AppliedExactly(ms, ts, txn, I) ==
    /\ DOMAIN ms = DOMAIN machines
    /\ \A m \in DOMAIN machines : ms[m] = MachineWith(txn, m, I)
    /\ \A i \in I :
          /\ txn.placements[i].task \in DOMAIN ts
          /\ ts[txn.placements[i].task].assigned_machine \in
                {txn.placements[k].machine_id :
                    k \in {k \in I : txn.placements[k].task = txn.placements[i].task}}

\* the step is a call of commit_transaction; last' holds its arguments and
\* what it gave back, the unprimed variables are the cell state it was
\* called on
Committing == last'.op = "commit_transaction"

\* the call returned its pair (ok, conflicts) instead of raising
Returned == ~last'.raised

-----------------------------------------------------------------------------
(* C1 - C10: the commit and release contract of the cell state *)

\* C1: in every reachable state of the cell state every machine has
\* 0 <= allocated_cpu <= cpu_cores, 0 <= allocated_gpu <= gpu_count and
\* 0 <= allocated_memory <= memory_gb.
C1_AllocationsWithinCapacity ==
    \A m \in DOMAIN machines :
        /\ 0 <= machines[m].allocated_cpu
        /\ machines[m].allocated_cpu <= machines[m].cpu_cores
        /\ 0 <= machines[m].allocated_gpu
        /\ machines[m].allocated_gpu <= machines[m].gpu_count
        /\ 0 <= machines[m].allocated_memory
        /\ machines[m].allocated_memory <= machines[m].memory_gb

\* C2: in every reachable state the allocated cpu, gpu and memory of every
\* machine equal the summed demand of exactly the tasks in machine.tasks.
C2_AllocationsEqualTaskDemand ==
    \A m \in DOMAIN machines :
        /\ machines[m].allocated_cpu =
              SumOver(machines[m].tasks, [t \in TaskIds |-> CpuReq(t)])
        /\ machines[m].allocated_gpu =
              SumOver(machines[m].tasks, [t \in TaskIds |-> GpuReq(t)])
        /\ machines[m].allocated_memory =
              SumOver(machines[m].tasks, [t \in TaskIds |-> MemoryReq(t)])

\* C3: in every reachable state a task assigned to machine M has its id in
\* M.tasks, and no task id is in the tasks set of two machines.
C3_TaskOnExactlyItsMachine ==
    /\ \A t \in DOMAIN tasks :
          tasks[t].assigned_machine # None =>
              /\ tasks[t].assigned_machine \in DOMAIN machines
              /\ t \in machines[tasks[t].assigned_machine].tasks
    /\ \A m1, m2 \in DOMAIN machines :
          m1 # m2 => machines[m1].tasks \cap machines[m2].tasks = {}

\* C4: a transaction whose placements all name a known machine, record its
\* current version and fit its live free capacity commits: the call returns
\* (True, []) and every placement is applied (demand added, task id in
\* machine.tasks, task assigned, machine version + 1 per placement).
C4_ValidTransactionCommits ==
    [][LET txn == last'.txn
       IN (Committing /\ \A i \in Positions(txn) : ValidAt(txn, i))
          => /\ Returned
             /\ last'.ok
             /\ last'.conflicts = <<>>
             /\ AppliedExactly(machines', tasks', txn, Positions(txn))]_vars

\* C5: when the version a transaction records for a machine differs from the
\* live version, every placement of the transaction on that machine is
\* reported as a conflict and the machine is left as it was.
C5_StaleVersionConflicts ==
    [][LET txn == last'.txn
       IN Committing =>
          \A m \in TouchedMachines(txn.placements) \cap DOMAIN machines :
              txn.machine_versions[m] # machines[m].version
              => /\ Returned
                 /\ \A i \in PositionsOn(txn, m) :
                       txn.placements[i].task \in Range(last'.conflicts)
                 /\ machines'[m] = machines[m]]_vars

\* C6: a commit with incremental = false and at least one conflicting
\* placement returns (False, the ids of all placements in order) and leaves
\* every machine, every task's assignment, the global version, total_commits
\* and the transaction log unchanged.
C6_GangAbortChangesNothing ==
    [][LET txn == last'.txn
       IN (/\ Committing
           /\ ~last'.incremental
           /\ \E i \in Positions(txn) : ~ValidAt(txn, i))
          => /\ Returned
             /\ last'.ok = FALSE
             /\ last'.conflicts = IdsAt(txn, Positions(txn))
             /\ machines' = machines
             /\ tasks' = tasks
             /\ version' = version
             /\ total_commits' = total_commits
             /\ transaction_log' = transaction_log]_vars

\* C6 witness: a non-incremental commit of one valid and one conflicting
\* placement has just been aborted, on a cell that holds a committed task.
C6_Witness ==
    /\ last.op = "commit_transaction"
    /\ ~last.incremental
    /\ ~last.raised
    /\ ~last.ok
    /\ Len(last.txn.placements) = 2
    /\ \E i \in Positions(last.txn) : ValidAt(last.txn, i)
    /\ \E i \in Positions(last.txn) : ~ValidAt(last.txn, i)
    /\ last.conflicts = IdsAt(last.txn, Positions(last.txn))
    /\ total_commits = 1
    /\ \E m \in DOMAIN machines : machines[m].tasks # {}

\* C7: an incremental commit with some conflicting and some valid placements
\* returns (False, exactly the ids of the conflicting placements), applies
\* every valid placement and leaves the machines named only by conflicting
\* placements unchanged.
C7_IncrementalPartialCommit ==
    [][LET txn   == last'.txn
           valid == {i \in Positions(txn) : ValidAt(txn, i)}
           bad   == Positions(txn) \ valid
       IN (Committing /\ last'.incremental /\ valid # {} /\ bad # {})
          => /\ Returned
             /\ last'.ok = FALSE
             /\ last'.conflicts = IdsAt(txn, bad)
             /\ AppliedExactly(machines', tasks', txn, valid)
             /\ \A m \in DOMAIN machines :
                   (\A i \in PositionsOn(txn, m) : i \in bad) =>
                       machines'[m] = machines[m]]_vars

\* C8: when two placements of one transaction name the same machine, each
\* fits the live machine alone and their combined demand exceeds its free
\* capacity, the second placement is reported as a conflict.  Stated for two
\* different tasks and for the calls that return: what it shows is the
\* validation loop itself.
C8_SameMachinePlacementsCompound ==
    [][LET txn == last'.txn
       IN (/\ Committing
           /\ Returned
           /\ Len(txn.placements) = 2
           /\ txn.placements[1].machine_id = txn.placements[2].machine_id
           /\ txn.placements[1].task # txn.placements[2].task
           /\ ValidAt(txn, 1)
           /\ ValidAt(txn, 2)
           /\ LET m == machines[txn.placements[1].machine_id]
                  a == txn.placements[1].task
                  b == txn.placements[2].task
              IN \/ CpuReq(a) + CpuReq(b) > m.cpu_cores - m.allocated_cpu
                 \/ GpuReq(a) + GpuReq(b) > m.gpu_count - m.allocated_gpu
                 \/ MemoryReq(a) + MemoryReq(b) > m.memory_gb - m.allocated_memory)
          => txn.placements[2].task \in Range(last'.conflicts)]_vars

\* C9: a placement of a task whose assigned_machine is already set is
\* reported as a conflict and is not applied: the task stays where it was
\* and its machine keeps exactly the demand it had.  Stated for the calls
\* that return.
C9_AssignedTaskIsNotPlacedAgain ==
    [][LET txn == last'.txn
       IN (Committing /\ Returned) =>
          \A i \in Positions(txn) :
              LET t == txn.placements[i].task
              IN (t \in DOMAIN tasks /\ tasks[t].assigned_machine # None)
                 => /\ t \in Range(last'.conflicts)
                    /\ tasks'[t].assigned_machine = tasks[t].assigned_machine]_vars

\* the transaction without its placements of unregistered tasks
WithoutUnregistered(txn) ==
    [txn EXCEPT !.placements =
        SeqFilter(txn.placements,
                  {i \in Positions(txn) : txn.placements[i].task \in DOMAIN tasks})]

\* C10: commit_transaction never raises for a placement of a task id that is
\* not in CellState.tasks: the placement is reported in the returned conflict
\* list, and machines, tasks, global version, total_commits and the log are
\* as if the placement had not been submitted (an incremental commit applies
\* what the rest of the transaction applies; a non-incremental one, having a
\* conflict, applies nothing).
C10_UnregisteredTaskIsAConflict ==
    [][LET txn == last'.txn
           unregistered == {i \in Positions(txn) :
                               txn.placements[i].task \notin DOMAIN tasks}
           rest == CommitOutcome(WithoutUnregistered(txn), TRUE)
       IN (Committing /\ unregistered # {})
          => /\ Returned
             /\ \A i \in unregistered :
                   txn.placements[i].task \in Range(last'.conflicts)
             /\ IF last'.incremental
                THEN /\ machines' = rest.machines
                     /\ tasks' = rest.tasks
                     /\ version' = rest.version
                     /\ total_commits' = rest.total_commits
                     /\ transaction_log' = rest.transaction_log
                ELSE /\ machines' = machines
                     /\ tasks' = tasks
                     /\ version' = version
                     /\ total_commits' = total_commits
                     /\ transaction_log' = transaction_log]_vars

-----------------------------------------------------------------------------
(* C11 - C16, C18: conflicts, versions, counters and release *)

\* the step is a call of release_task; last'.task_id is its argument
Releasing == last'.op = "release_task"

\* C11: a placement naming a machine id that is not in CellState.machines is
\* reported as a conflict for its task, the call raises no exception, and an
\* incremental commit still applies the valid placements of the transaction.
C11_UnknownMachineIsAConflict ==
    [][LET txn     == last'.txn
           unknown == {i \in Positions(txn) :
                          txn.placements[i].machine_id \notin DOMAIN machines}
           valid   == {i \in Positions(txn) : ValidAt(txn, i)}
       IN (Committing /\ unknown # {})
          => /\ Returned
             /\ \A i \in unknown :
                   txn.placements[i].task \in Range(last'.conflicts)
             /\ last'.incremental =>
                   AppliedExactly(machines', tasks', txn, valid)]_vars

\* C12: a machine's version starts at 0 and counts the changes made to the
\* machine: a commit raises it by the number of placements it applied to the
\* machine (each one valid, each adding its demand and its task id), an
\* effective release raises it by 1, and a rejected placement, a no-op
\* release or any other call leaves the machine as it was.
C12_MachineVersionCountsChanges ==
    [][/\ \A m \in DOMAIN machines' \ DOMAIN machines : machines'[m].version = 0
       /\ \A m \in DOMAIN machines :
             /\ m \in DOMAIN machines'
             /\ machines'[m].version >= machines[m].version
             /\ IF Committing
                THEN \E I \in SUBSET {i \in PositionsOn(last'.txn, m) :
                                         ValidAt(last'.txn, i)} :
                        machines'[m] = MachineWith(last'.txn, m, I)
                ELSE IF /\ Releasing
                        /\ last'.task_id \in DOMAIN tasks
                        /\ tasks[last'.task_id].assigned_machine = m
                THEN /\ machines'[m].version = machines[m].version + 1
                     /\ machines'[m].allocated_cpu =
                           machines[m].allocated_cpu - CpuReq(last'.task_id)
                     /\ last'.task_id \notin machines'[m].tasks
                ELSE machines'[m] = machines[m]]_vars

\* C12 witness: a task was placed on a machine and released again, and other
\* placements were applied to the machine: its version is past 2.
C12_Witness ==
    /\ last.op = "release_task"
    /\ last.task_id \in DOMAIN tasks
    /\ tasks[last.task_id].assigned_machine = None
    /\ \E m \in DOMAIN machines :
          /\ machines[m].version >= 3
          /\ machines[m].tasks # {}
          /\ last.task_id \notin machines[m].tasks

\* C13: the global version equals total_commits and the length of the
\* transaction log, which is the number of transactions that applied at
\* least one placement; total_commits <= total_transactions, and
\* total_transactions counts every commit_transaction call.
C13_VersionCountsApplyingCommits ==
    [][/\ version' = total_commits'
       /\ total_commits' = Len(transaction_log')
       /\ total_commits' <= total_transactions'
       /\ IF Committing
          THEN /\ total_transactions' = total_transactions + 1
               /\ Len(transaction_log') =
                     Len(transaction_log) + (IF machines' # machines THEN 1 ELSE 0)
          ELSE /\ total_transactions' = total_transactions
               /\ transaction_log' = transaction_log]_vars

\* C14: a commit_transaction call raises total_conflicts by the number of
\* conflicting placements when it is incremental, by the number of placements
\* of the transaction when it is non-incremental and aborted, and by nothing
\* when no placement conflicts.
C14_TotalConflictsGrowth ==
    [][LET txn == last'.txn
           bad == {i \in Positions(txn) : ~ValidAt(txn, i)}
       IN Committing =>
          total_conflicts' = total_conflicts +
              (IF last'.incremental THEN Cardinality(bad)
               ELSE IF bad # {} THEN Len(txn.placements) ELSE 0)]_vars

\* C15: when a transaction of one placement (T on M) was accepted and
\* release_task(T) is the next call, M's allocated cpu, gpu and memory and
\* M.tasks are back to what they were before the placement, T is unassigned,
\* M.version is 2 higher, and the release leaves the global version, the
\* three counters and the transaction log unchanged.
C15_PlaceThenReleaseRestores ==
    [][(/\ Releasing
        /\ last.op = "commit_transaction"
        /\ ~last.raised
        /\ last.ok
        /\ Len(last.txn.placements) = 1
        /\ last.txn.placements[1].task = last'.task_id)
       => LET M == last.txn.placements[1].machine_id
              T == last'.task_id
          IN /\ machines'[M].allocated_cpu = last.before[M].allocated_cpu
             /\ machines'[M].allocated_gpu = last.before[M].allocated_gpu
             /\ machines'[M].allocated_memory = last.before[M].allocated_memory
             /\ machines'[M].tasks = last.before[M].tasks
             /\ tasks'[T].assigned_machine = None
             /\ machines'[M].version = last.before[M].version + 2
             /\ version' = version
             /\ total_commits' = total_commits
             /\ total_conflicts' = total_conflicts
             /\ total_transactions' = total_transactions
             /\ transaction_log' = transaction_log]_vars

\* C16: release_task on a task id that is unknown or whose task is
\* unassigned changes nothing in the cell state, and a second release_task on
\* the same task right after the first changes nothing either.
C16_ReleaseIsIdempotent ==
    [][(/\ Releasing
        /\ \/ last'.task_id \notin DOMAIN tasks
           \/ tasks[last'.task_id].assigned_machine = None
           \/ last.op = "release_task" /\ last.task_id = last'.task_id)
       => /\ machines' = machines
          /\ tasks' = tasks
          /\ jobs' = jobs
          /\ version' = version
          /\ total_commits' = total_commits
          /\ total_conflicts' = total_conflicts
          /\ total_transactions' = total_transactions
          /\ transaction_log' = transaction_log]_vars

\* C16 witness: release_task has just been called with a task id the cell
\* does not know, on a cell that holds a committed task.
C16_Witness ==
    /\ last.op = "release_task"
    /\ last.task_id \notin DOMAIN tasks
    /\ total_commits >= 1
    /\ \E m \in DOMAIN machines : machines[m].allocated_cpu > 0

\* C18: a placement of a task whose cpu, gpu or memory demand exceeds the
\* total capacity of its machine is reported as a conflict, whatever version
\* the transaction records and whatever the incremental flag is.
C18_OversizedTaskIsAConflict ==
    [][LET txn == last'.txn
       IN Committing =>
          \A i \in Positions(txn) :
              LET t == txn.placements[i].task
                  m == txn.placements[i].machine_id
              IN (/\ m \in DOMAIN machines
                  /\ \/ CpuReq(t) > machines[m].cpu_cores
                     \/ GpuReq(t) > machines[m].gpu_count
                     \/ MemoryReq(t) > machines[m].memory_gb)
                 => /\ Returned
                    /\ t \in Range(last'.conflicts)]_vars

-----------------------------------------------------------------------------
(* CellState.get_snapshot and the schedulers: BaseScheduler.attempt_schedule *)
(* driven by ClusterSimulator._scheduler_process, tasks released by          *)
(* ClusterSimulator._task_process.  Schedulers may run concurrently: every   *)
(* call on the cell state is atomic (CellState.lock), the steps of           *)
(* attempt_schedule between two calls are local to the scheduler.            *)

\* a CellState() whose version was not copied from the authoritative state
get_snapshot_FreshVersion ==
    [machines |-> machines, jobs |-> jobs, tasks |-> tasks, version |-> 0]

\* get_snapshot: deep copies of machines, jobs and tasks and the version
get_snapshot ==
    [machines |-> machines, jobs |-> jobs, tasks |-> tasks, version |-> version]

\* BaseScheduler.__init__, before any attempt_schedule call.  pc is the place
\* of the scheduler in attempt_schedule; returned is what the last call
\* returned.
NewScheduler ==
    [pc |-> "idle", job |-> None, incremental |-> TRUE, attempt |-> 0,
     snapshot |-> None, transaction |-> NoTransaction, returned |-> None,
     jobs_scheduled |-> 0, tasks_scheduled |-> 0, conflicts_encountered |-> 0]

\* Transaction(scheduler_id)
NewTransaction(s) ==
    [scheduler_id |-> s, placements |-> <<>>, machine_versions |-> <<>>]

\* a placement that records the version after the one it was given
add_placement_NextVersion(txn, t, machine_id, machine_version) ==
    [txn EXCEPT
        !.placements = Append(@, [task |-> t, machine_id |-> machine_id]),
        !.machine_versions = (machine_id :> machine_version + 1) @@ @]

\* Transaction.add_placement
add_placement(txn, t, machine_id, machine_version) ==
    [txn EXCEPT
        !.placements = Append(@, [task |-> t, machine_id |-> machine_id]),
        !.machine_versions = (machine_id :> machine_version) @@ @]

\* FirstFitScheduler.select_machine: the first machine of the snapshot that
\* fits the task, None when no machine fits
select_machine(t, snapshot_machines) ==
    LET fits == {i \in 1..Len(MachineOrder) :
                    /\ MachineOrder[i] \in DOMAIN snapshot_machines
                    /\ can_fit(snapshot_machines[MachineOrder[i]],
                               TaskSpec[t].cpu_req, TaskSpec[t].gpu_req,
                               TaskSpec[t].memory_req)}
    IN IF fits = {} THEN None
       ELSE MachineOrder[CHOOSE i \in fits : \A k \in fits : i <= k]

\* a schedule_job that leaves its snapshot as it was
Reserve_Nothing(machine, t) == machine

\* the reservation schedule_job makes on the machine of its snapshot
Reserve(machine, t) ==
    [machine EXCEPT
        !.allocated_cpu = @ + TaskSpec[t].cpu_req,
        !.allocated_gpu = @ + TaskSpec[t].gpu_req,
        !.allocated_memory = @ + TaskSpec[t].memory_req]

\* FirstFitScheduler.schedule_job, the loop over job.tasks: a task that is
\* already assigned or that fits no machine of the snapshot is passed over.
\* job.tasks are the registered Task objects, so assigned_machine is read
\* from the cell's task table ts.
RECURSIVE schedule_tasks(_, _, _, _)
schedule_tasks(job_tasks, snapshot_machines, txn, ts) ==
    IF job_tasks = <<>>
    THEN [machines |-> snapshot_machines, transaction |-> txn]
    ELSE LET t == Head(job_tasks)
             machine_id == select_machine(t, snapshot_machines)
         IN IF ts[t].assigned_machine # None \/ machine_id = None
            THEN schedule_tasks(Tail(job_tasks), snapshot_machines, txn, ts)
            ELSE schedule_tasks(
                     Tail(job_tasks),
                     [snapshot_machines EXCEPT ![machine_id] = Reserve(@, t)],
                     add_placement(txn, t, machine_id,
                                   snapshot_machines[machine_id].version),
                     ts)

\* FirstFitScheduler.schedule_job: the snapshot machines after the
\* reservations and the transaction (no placements: the call returns None)
schedule_job(s, job, snapshot) ==
    schedule_tasks(JobSpec[job].tasks, snapshot.machines, NewTransaction(s), tasks)

\* a retry loop that never runs out of attempts
Exhausted_Never(attempt) == FALSE

\* line 49: for attempt in range(max_retries) has no further iteration
Exhausted(attempt) == attempt + 1 >= max_retries

\* _scheduler_process lines 77-89: pop the next job of the queue and call
\* attempt_schedule(job, max_retries, incremental = not job.gang_schedule)
StartJob(s) ==
    /\ schedulers[s].pc = "idle"
    /\ job_queues[s] # <<>>
    /\ 0 < max_retries
    /\ job_queues' = [job_queues EXCEPT ![s] = Tail(@)]
    /\ schedulers' = [schedulers EXCEPT ![s] =
           [@ EXCEPT !.pc = "snapshot",
                     !.job = Head(job_queues[s]),
                     !.incremental = ~JobSpec[Head(job_queues[s])].gang_schedule,
                     !.attempt = 0,
                     !.returned = None]]
    /\ UNCHANGED <<machines, jobs, tasks, version, transaction_log,
                   total_commits, total_conflicts, total_transactions, last,
                   sim, failed_machines>>

\* attempt_schedule line 51
GetSnapshot(s) ==
    /\ schedulers[s].pc = "snapshot"
    /\ schedulers' = [schedulers EXCEPT ![s] =
           [@ EXCEPT !.pc = "schedule", !.snapshot = get_snapshot]]
    /\ UNCHANGED <<machines, jobs, tasks, version, transaction_log,
                   total_commits, total_conflicts, total_transactions, last,
                   job_queues, sim, failed_machines>>

\* attempt_schedule lines 55-60: schedule_job on the snapshot; no
\* transaction or no placements returns False
ScheduleJob(s) ==
    /\ schedulers[s].pc = "schedule"
    /\ LET out == schedule_job(s, schedulers[s].job, schedulers[s].snapshot)
       IN schedulers' = [schedulers EXCEPT ![s] =
              IF out.transaction.placements = <<>>
              THEN [@ EXCEPT !.pc = "idle", !.returned = FALSE,
                             !.snapshot = None,
                             !.transaction = NoTransaction]
              ELSE [@ EXCEPT !.pc = "commit",
                             !.snapshot.machines = out.machines,
                             !.transaction = out.transaction]]
    /\ UNCHANGED <<machines, jobs, tasks, version, transaction_log,
                   total_commits, total_conflicts, total_transactions, last,
                   job_queues, sim, failed_machines>>

\* attempt_schedule lines 63-88: commit the transaction and return or retry
\* a partial success counted like a full one
PlacedCount_All(placements, conflicts) == Len(placements)

\* line 83: len(transaction.placements) - len(conflicts)
PlacedCount(placements, conflicts) == Len(placements) - Len(conflicts)

Commit(s) ==
    /\ schedulers[s].pc = "commit"
    /\ CommitCall(schedulers[s].transaction, schedulers[s].incremental)
    /\ LET txn  == schedulers[s].transaction
           out  == CommitOutcome(txn, schedulers[s].incremental)
           back == [schedulers[s] EXCEPT !.pc = "idle", !.snapshot = None,
                                         !.transaction = NoTransaction]
       IN schedulers' = [schedulers EXCEPT ![s] =
              IF out.raised
              THEN [back EXCEPT !.pc = "raised"]
              ELSE IF out.ok
              THEN [back EXCEPT
                       !.returned = TRUE,
                       !.jobs_scheduled = @ + 1,
                       !.tasks_scheduled = @ + Len(txn.placements)]
              ELSE IF /\ schedulers[s].incremental
                      /\ Len(out.conflicts) < Len(txn.placements)
              THEN [back EXCEPT
                       !.returned = TRUE,
                       !.conflicts_encountered = @ + Len(out.conflicts),
                       !.jobs_scheduled = @ + 1,
                       !.tasks_scheduled =
                           @ + PlacedCount(txn.placements, out.conflicts)]
              ELSE IF Exhausted(schedulers[s].attempt)
              THEN [back EXCEPT
                       !.returned = FALSE,
                       !.conflicts_encountered = @ + Len(out.conflicts)]
              ELSE [back EXCEPT
                       !.pc = "snapshot",
                       !.attempt = @ + 1,
                       !.conflicts_encountered = @ + Len(out.conflicts)]]
    /\ UNCHANGED <<job_queues, sim, failed_machines>>

\* _task_process lines 114-119: a task started after its job was scheduled
\* completes and is released
TaskCompletes(t) ==
    /\ tasks[t].assigned_machine # None
    /\ \A s \in SimSchedulerIds :
          schedulers[s].pc = "idle" \/ schedulers[s].job # TaskSpec[t].job_id
    /\ ReleaseTask(t)

\* the queues the arrivals leave: every job in the queue of one scheduler,
\* jobs in arrival order j1, j2, j3
QueueOf(f, s) ==
    SeqFilter(<<"j1", "j2", "j3">>,
              {i \in 1..3 : f[<<"j1", "j2", "j3">>[i]] = s})

\* the cluster is loaded (both machines added, every job registered with
\* add_job) and the jobs are in the queues of the schedulers
SchedInit ==
    /\ machines = [m \in MachineIds |-> NewMachine(m)]
    /\ jobs = DOMAIN JobSpec
    /\ tasks = [t \in DOMAIN TaskSpec |-> [assigned_machine |-> None]]
    /\ version = 0
    /\ transaction_log = <<>>
    /\ total_commits = 0
    /\ total_conflicts = 0
    /\ total_transactions = 0
    /\ last = NoCall
    /\ schedulers = [s \in SimSchedulerIds |-> NewScheduler]
    /\ job_queues \in {[s \in SimSchedulerIds |-> QueueOf(f, s)] :
                          f \in [DOMAIN JobSpec -> SimSchedulerIds]}
    /\ sim = NoSimulator
    /\ failed_machines = {}

SchedNext ==
    \/ \E s \in SimSchedulerIds : StartJob(s)
    \/ \E s \in SimSchedulerIds : GetSnapshot(s)
    \/ \E s \in SimSchedulerIds : ScheduleJob(s)
    \/ \E s \in SimSchedulerIds : Commit(s)
    \/ \E t \in DOMAIN TaskSpec : TaskCompletes(t)

SchedSpec == SchedInit /\ [][SchedNext]_vars

\* every scheduler keeps taking the steps of its attempt_schedule call
FairSchedSpec ==
    /\ SchedSpec
    /\ \A s \in SimSchedulerIds :
          WF_vars(GetSnapshot(s) \/ ScheduleJob(s) \/ Commit(s))

-----------------------------------------------------------------------------
(* C17, C19, C20: snapshots and attempt_schedule *)

C19_GangJobAllOrNothing ==
    [][\A s \in SimSchedulerIds :
          (/\ schedulers[s].pc # "idle"
           /\ schedulers'[s].pc = "idle"
           /\ JobSpec[schedulers[s].job].gang_schedule)
          => LET job_tasks == Range(JobSpec[schedulers[s].job].tasks)
                 placed == {t \in job_tasks : tasks'[t].assigned_machine # None}
             IN placed = {} \/ placed = job_tasks]_vars

\* C20: attempt_schedule ends after at most max_retries attempts.  Every
\* commit it submits is one of at most max_retries, it goes back for another
\* snapshot only when the commit applied nothing and an attempt is left, it
\* returns failure unless the returning commit applied a placement, and a
\* call that has started always returns.
C20_AttemptScheduleTerminates ==
    /\ [][\A s \in SimSchedulerIds :
             /\ schedulers'[s].attempt < max_retries
             /\ (schedulers[s].pc = "commit" /\ schedulers'[s].pc = "snapshot")
                => /\ schedulers'[s].attempt = schedulers[s].attempt + 1
                   /\ machines' = machines
                   /\ tasks' = tasks
             /\ (schedulers[s].pc # "idle" /\ schedulers'[s].pc = "idle")
                => /\ schedulers'[s].returned \in BOOLEAN
                   /\ schedulers'[s].returned =
                         (schedulers[s].pc = "commit" /\ machines' # machines)]_vars
    /\ \A s \in SimSchedulerIds :
          (schedulers[s].pc # "idle") ~> (schedulers[s].pc = "idle")

\* C20 witness: a scheduler has used up its attempts: its last commit, the
\* one numbered max_retries, was rejected and the call returned failure.
C20_Witness ==
    \E s \in SimSchedulerIds :
        /\ last.op = "commit_transaction"
        /\ last.txn.scheduler_id = s
        /\ ~last.ok
        /\ schedulers[s].pc = "idle"
        /\ schedulers[s].attempt = max_retries - 1
        /\ schedulers[s].conflicts_encountered >= max_retries
        /\ schedulers[s].returned = FALSE

-----------------------------------------------------------------------------
(* ClusterSimulator: src/src/simulation/simulator.py                        *)
(*                                                                         *)
(* The simulator runs its processes on a simpy environment: one process    *)
(* runs at a time, up to its next yield, and the events of the environment *)
(* are taken in the order of their time and, at the same time, of their    *)
(* creation.  The clock env.now counts tenths of a second, the length of   *)
(* the scheduler's poll.  _task_completion_process only waits and changes  *)
(* nothing; it has no part in the model.                                   *)

\* the two identical machines of scenario S6
IdenticalMachines ==
    [m \in MachineIds |->
        [NewMachine(m) EXCEPT !.cpu_cores = 4, !.gpu_count = 1,
                              !.memory_gb = 4]]

\* the add_job_arrival calls of a run, in the order of the calls: each job
\* arrives at 0 s or at 0.2 s in the queue of one of the schedulers
Arrivals(job_ids) ==
    {[i \in 1..Len(job_ids) |->
          [arrival_time |-> at[i], job |-> job_ids[i], scheduler_id |-> to[i]]] :
        at \in [1..Len(job_ids) -> {0, 2}],
        to \in [1..Len(job_ids) -> SimSchedulerIds]}

\* the runs: scenario S6 (two identical machines, two single-task jobs of
\* duration 10 s arriving at 0, simulation_time = 100 s) and the runs of the
\* four jobs on the cluster m1, m2 for 2 s
Scenarios ==
    {[name |-> "S6", machines |-> IdenticalMachines, simulation_time |-> 1000,
      job_arrival_events |-> a] :
        a \in {b \in Arrivals(<<"j1", "j2">>) :
                   \A i \in 1..2 : b[i].arrival_time = 0}}
    \cup
    {[name |-> "mixed", machines |-> [m \in MachineIds |-> NewMachine(m)],
      simulation_time |-> 20, job_arrival_events |-> a] :
        a \in Arrivals(<<"j1", "j2", "j3", "j4">>)}

\* list.sort(key = arrival time) of run, line 45: an entry goes behind the
\* entries that are not later than it (the sort is stable)
InsertByTime(sorted, e) ==
    LET before == {i \in 1..Len(sorted) :
                      sorted[i].arrival_time <= e.arrival_time}
    IN SeqFilter(sorted, before) \o <<e>>
           \o SeqFilter(sorted, (1..Len(sorted)) \ before)

RECURSIVE SortByTime(_)
SortByTime(events) ==
    IF events = <<>> THEN <<>>
    ELSE InsertByTime(SortByTime(SubSeq(events, 1, Len(events) - 1)),
                      events[Len(events)])

\* an event of the environment: a timeout a process waits for
Event(time, kind, scheduler_id, task_id) ==
    [time |-> time, kind |-> kind, scheduler_id |-> scheduler_id,
     task_id |-> task_id]

\* a queue that takes the new job at its head
Enqueue_AtHead(queue, job) == <<job>> \o queue

\* _job_arrival_process line 69: self.job_queues[scheduler_id].append(job)
Enqueue(queue, job) == Append(queue, job)

\* the simulator after run has started its processes at time 0: every
\* scheduler process found its queue empty and waits for 0.1 s, the arrival
\* process waits for the first arrival
NewSimulator(sc) ==
    LET sorted == SortByTime(sc.job_arrival_events)
    IN [name |-> sc.name,
        simulation_time |-> sc.simulation_time,
        added |-> sc.job_arrival_events,
        job_arrival_events |-> sorted,
        now |-> 0,
        events |-> <<Event(1, "wake", "scheduler1", None),
                     Event(1, "wake", "scheduler2", None)>>
                   \o (IF sorted = <<>> THEN <<>>
                       ELSE <<Event(sorted[1].arrival_time, "arrival",
                                    None, None)>>),
        running |-> None,
        handled |-> {},
        processed |-> [s \in SimSchedulerIds |-> [jobs |-> 0, at |-> 0]],
        active_tasks |-> <<>>,
        started |-> {},
        completed_jobs |-> <<>>,
        failed_jobs |-> <<>>,
        ended |-> FALSE]

\* the cell, the schedulers and the simulator when run is called
SimStart(sc) ==
    /\ machines = sc.machines
    /\ jobs = DOMAIN JobSpec
    /\ tasks = [t \in DOMAIN TaskSpec |-> [assigned_machine |-> None]]
    /\ version = 0
    /\ transaction_log = <<>>
    /\ total_commits = 0
    /\ total_conflicts = 0
    /\ total_transactions = 0
    /\ last = NoCall
    /\ schedulers = [s \in SimSchedulerIds |-> NewScheduler]
    /\ job_queues = [s \in SimSchedulerIds |-> <<>>]
    /\ sim = NewSimulator(sc)
    /\ failed_machines = {}

SimInit == \E sc \in Scenarios : SimStart(sc)

\* the time of the earliest event
NextTime == CHOOSE t \in {sim.events[i].time : i \in DOMAIN sim.events} :
                \A i \in DOMAIN sim.events : t <= sim.events[i].time

\* the events the environment may take next: of the events of the earliest
\* time, the one created first.  The time of a wake-up is a float sum of
\* 0.1 s and falls a hair before or after an arrival or a completion due at
\* the same tenth, so the first wake-up and the first other event of that
\* time may each come first.
Due ==
    LET at(kinds) == {i \in DOMAIN sim.events :
                         /\ sim.events[i].time = NextTime
                         /\ sim.events[i].kind \in kinds}
        first(I) == {i \in I : \A k \in I : i <= k}
    IN first(at({"wake"})) \cup first(at({"arrival", "completion"}))

\* the environment may take an event: no process is running and the run has
\* not reached simulation_time (run(until) stops before the events of that
\* time)
Takes(i) ==
    /\ sim.running = None
    /\ ~sim.ended
    /\ sim.events # <<>>
    /\ NextTime < sim.simulation_time
    /\ i \in Due

Without(events, i) == SeqFilter(events, DOMAIN events \ {i})

UnchangedCell ==
    UNCHANGED <<machines, jobs, tasks, version, transaction_log,
                total_commits, total_conflicts, total_transactions, last>>

\* _scheduler_process line 106 has waited: the scheduler process runs again
Wake(s) ==
    \E i \in DOMAIN sim.events :
        /\ Takes(i)
        /\ sim.events[i].kind = "wake"
        /\ sim.events[i].scheduler_id = s
        /\ sim' = [sim EXCEPT !.now = sim.events[i].time,
                              !.events = Without(@, i),
                              !.running = s]
        /\ UnchangedCell
        /\ UNCHANGED <<schedulers, job_queues, failed_machines>>

\* _job_arrival_process lines 64-69: the next job has arrived: it joins the
\* queue of its scheduler and the process waits for the arrival after it
Arrival ==
    \E i \in DOMAIN sim.events :
        /\ Takes(i)
        /\ sim.events[i].kind = "arrival"
        /\ LET a    == Head(sim.job_arrival_events)
               rest == Tail(sim.job_arrival_events)
           IN /\ job_queues' = [job_queues EXCEPT ![a.scheduler_id] =
                                    Enqueue(@, a.job)]
              /\ sim' = [sim EXCEPT
                     !.now = sim.events[i].time,
                     !.job_arrival_events = rest,
                     !.events =
                         Without(@, i)
                         \o (IF rest = <<>> THEN <<>>
                             ELSE <<Event(rest[1].arrival_time, "arrival",
                                          None, None)>>)]
        /\ UnchangedCell
        /\ UNCHANGED <<schedulers, failed_machines>>

\* the number of jobs the scheduler process has popped from its queue: the
\* jobs that arrived for it and are not in its queue
Popped(s) ==
    Cardinality({i \in DOMAIN sim.added : sim.added[i].scheduler_id = s})
       - Cardinality({i \in DOMAIN sim.job_arrival_events :
                         sim.job_arrival_events[i].scheduler_id = s})
       - Len(job_queues[s])

\* the job the scheduler process popped last has been dealt with: the
\* process is at the head of its while loop
Handled(s) == sim.processed[s].jobs = Popped(s)

\* _scheduler_process lines 76-89 in the running scheduler process
TakeJob(s) ==
    /\ sim.running = s
    /\ Handled(s)
    /\ StartJob(s)

\* a task process that does not wait
TaskDone_AtOnce(start_time, t) == start_time

\* _task_process line 111: yield self.env.timeout(task.duration) in the
\* process started at start_time
TaskDone(start_time, t) == start_time + TaskSpec[t].duration

\* whether the simulator takes the result of attempt_schedule for a success
Succeeded_Always(returned) == TRUE

\* line 91: if success
Succeeded(returned) == returned = TRUE

\* _scheduler_process lines 91-103: attempt_schedule has returned.  After a
\* success every task of the job that has a machine is started: it is
\* active and its _task_process waits for task.duration.  After a failure
\* the job is added to failed_jobs.
JobDone(s) ==
    /\ sim.running = s
    /\ schedulers[s].pc = "idle"
    /\ ~Handled(s)
    /\ LET job     == schedulers[s].job
           placed  == SeqFilter(JobSpec[job].tasks,
                          {i \in DOMAIN JobSpec[job].tasks :
                              tasks[JobSpec[job].tasks[i]].assigned_machine
                                  # None})
       IN sim' =
              IF Succeeded(schedulers[s].returned)
              THEN [sim EXCEPT
                       !.handled = @ \cup {job},
                       !.processed[s] = [jobs |-> @.jobs + 1, at |-> sim.now],
                       !.started = @ \cup Range(placed),
                       !.active_tasks =
                           [t \in Range(placed) |->
                               [start_time |-> sim.now, job |-> job]] @@ @,
                       !.events = @ \o
                           [i \in DOMAIN placed |->
                               Event(TaskDone(sim.now, placed[i]),
                                     "completion", None, placed[i])]]
              ELSE [sim EXCEPT
                       !.handled = @ \cup {job},
                       !.processed[s] = [jobs |-> @.jobs + 1, at |-> sim.now],
                       !.failed_jobs = Append(@, job)]
    /\ UnchangedCell
    /\ UNCHANGED <<schedulers, job_queues, failed_machines>>

\* _scheduler_process lines 104-106: the queue is empty, the process waits
\* for 0.1 s
Sleep(s) ==
    /\ sim.running = s
    /\ Handled(s)
    /\ job_queues[s] = <<>>
    /\ sim' = [sim EXCEPT !.running = None,
                          !.events = Append(@, Event(sim.now + 1, "wake",
                                                     s, None))]
    /\ UnchangedCell
    /\ UNCHANGED <<schedulers, job_queues, failed_machines>>

\* _task_process lines 110-134: the duration of the task has passed.  The
\* task leaves active_tasks and is released; when no task of its job is
\* active the job is added to completed_jobs.  completed_jobs holds dicts,
\* so `job not in self.completed_jobs` is true of every job.
TaskProcess(t) ==
    \E i \in DOMAIN sim.events :
        /\ Takes(i)
        /\ sim.events[i].kind = "completion"
        /\ sim.events[i].task_id = t
        /\ IF t \in DOMAIN sim.active_tasks
           THEN LET completion_time == sim.events[i].time
                    job    == sim.active_tasks[t].job
                    active == [x \in DOMAIN sim.active_tasks \ {t} |->
                                  sim.active_tasks[x]]
                    all_complete == \A x \in Range(JobSpec[job].tasks) :
                                        x \notin DOMAIN active
                    \* job.submit_time is the arrival time of the job (of
                    \* its first add_job_arrival call)
                    submit_time ==
                        LET calls == {k \in DOMAIN sim.added :
                                         sim.added[k].job = job}
                        IN sim.added[CHOOSE k \in calls :
                                        \A x \in calls : k <= x].arrival_time
                IN /\ ReleaseCall(t)
                   /\ sim' = [sim EXCEPT
                          !.now = completion_time,
                          !.events = Without(@, i),
                          !.active_tasks = active,
                          !.completed_jobs =
                              IF all_complete
                              THEN Append(@,
                                      [job |-> job,
                                       completion_time |-> completion_time,
                                       duration |->
                                           completion_time - submit_time])
                              ELSE @]
           ELSE /\ sim' = [sim EXCEPT !.now = sim.events[i].time,
                                      !.events = Without(@, i)]
                /\ UnchangedCell
        /\ UNCHANGED <<schedulers, job_queues, failed_machines>>

\* run line 58: env.run(until = simulation_time) returns when the clock
\* reaches simulation_time
EndRun ==
    /\ sim.running = None
    /\ ~sim.ended
    /\ sim.events = <<>> \/ NextTime >= sim.simulation_time
    /\ sim' = [sim EXCEPT !.now = sim.simulation_time, !.ended = TRUE]
    /\ UnchangedCell
    /\ UNCHANGED <<schedulers, job_queues, failed_machines>>

SimNext ==
    \/ \E s \in SimSchedulerIds : Wake(s)
    \/ Arrival
    \/ \E s \in SimSchedulerIds : TakeJob(s)
    \/ \E s \in SimSchedulerIds : GetSnapshot(s)
    \/ \E s \in SimSchedulerIds : ScheduleJob(s)
    \/ \E s \in SimSchedulerIds : Commit(s)
    \/ \E s \in SimSchedulerIds : JobDone(s)
    \/ \E s \in SimSchedulerIds : Sleep(s)
    \/ \E t \in DOMAIN TaskSpec : TaskProcess(t)
    \/ EndRun

SimSpec == SimInit /\ [][SimNext]_vars

\* _collect_results lines 159-161: sum(durations) and len(durations), the
\* two terms of avg_job_duration
RECURSIVE SumDurations(_)
SumDurations(completed) ==
    IF completed = <<>> THEN 0
    ELSE completed[1].duration + SumDurations(Tail(completed))

-----------------------------------------------------------------------------
(* C21 - C25: the simulator *)

\* the add_job_arrival call i comes before the call k in arrival order:
\* earlier arrival time, or the same time and called first
ArrivesBefore(i, k) ==
    \/ sim.added[i].arrival_time < sim.added[k].arrival_time
    \/ /\ sim.added[i].arrival_time = sim.added[k].arrival_time
       /\ i < k

\* scheduler s passes a job to attempt_schedule in this step
Attempting(s) ==
    /\ schedulers[s].pc = "idle"
    /\ schedulers'[s].pc = "snapshot"

\* C21: within one scheduler the jobs are passed to attempt_schedule in the
\* arrival order of its queue: when a scheduler takes a job, the job was
\* added for this scheduler and every job added for it that arrives before
\* (earlier arrival time, or the same time and an earlier add_job_arrival
\* call) has been attempted by it already, whatever the other scheduler does.
C21_AttemptsInArrivalOrder ==
    [][\A s \in SimSchedulerIds :
          Attempting(s) =>
             \E k \in DOMAIN sim.added :
                /\ sim.added[k].job = schedulers'[s].job
                /\ sim.added[k].scheduler_id = s
                /\ \A i \in DOMAIN sim.added :
                      (sim.added[i].scheduler_id = s /\ ArrivesBefore(i, k))
                         => sim.added[i].job \in sim.handled]_vars

\* a scheduler attempts j1 after j2: both were added for it, j1 by the
\* earlier call but with the later arrival time
C21_Witness ==
    \E s \in SimSchedulerIds :
        /\ sim.name = "mixed"
        /\ schedulers[s].pc = "snapshot"
        /\ schedulers[s].job = "j1"
        /\ "j2" \in sim.handled
        /\ sim.added[1].scheduler_id = s
        /\ sim.added[2].scheduler_id = s
        /\ sim.added[1].arrival_time = 2
        /\ sim.added[2].arrival_time = 0

\* the tasks of a job
TasksOf(job) == Range(JobSpec[job].tasks)

\* the jobs of completed_jobs
CompletedJobs(s) == {s.completed_jobs[i].job : i \in DOMAIN s.completed_jobs}

C23_CompletedJobRanAllTasks ==
    \A job \in CompletedJobs(sim) :
        \A t \in TasksOf(job) :
            /\ t \in sim.started
            /\ t \notin DOMAIN sim.active_tasks
            /\ tasks[t].assigned_machine = None

\* task t is released in this step
Released(t) ==
    /\ tasks[t].assigned_machine # None
    /\ tasks'[t].assigned_machine = None

C25_ScenarioS6 ==
    (sim.name = "S6" /\ sim.ended) =>
        /\ CompletedJobs(sim) = {"j1", "j2"}
        /\ Len(sim.completed_jobs) = 2
        /\ \A i \in DOMAIN sim.completed_jobs :
              sim.completed_jobs[i].duration = 100
        /\ SumDurations(sim.completed_jobs) = 100 * Len(sim.completed_jobs)
        /\ \A m \in DOMAIN machines :
              /\ machines[m].allocated_cpu = 0
              /\ machines[m].allocated_gpu = 0
              /\ machines[m].allocated_memory = 0
              /\ machines[m].tasks = {}

-----------------------------------------------------------------------------
(* FailureSimulator: src/src/simulation/simulator.py                        *)

\* release_task(task_id) on the machines ms and the tasks ts
ReleaseIn(ms, ts, task_id) ==
    IF task_id \notin DOMAIN ts \/ ts[task_id].assigned_machine = None
    THEN [machines |-> ms, tasks |-> ts]
    ELSE [machines |-> [ms EXCEPT ![ts[task_id].assigned_machine] =
                            ReleaseFrom(@, task_id)],
          tasks |-> [ts EXCEPT ![task_id].assigned_machine = None]]

\* inject_failure lines 180-182: release_task for every task id of
\* tasks_to_release
RECURSIVE ReleaseAll(_, _, _)
ReleaseAll(tasks_to_release, ms, ts) ==
    IF tasks_to_release = {} THEN [machines |-> ms, tasks |-> ts]
    ELSE LET t   == CHOOSE t \in tasks_to_release : TRUE
             out == ReleaseIn(ms, ts, t)
         IN ReleaseAll(tasks_to_release \ {t}, out.machines, out.tasks)

\* a failure that is only recorded
FailureOutcome_KeepsTasks(machine_id) == [machines |-> machines, tasks |-> tasks]

\* the machines and tasks after inject_failure(machine_id)
FailureOutcome(machine_id) ==
    ReleaseAll(machines[machine_id].tasks, machines, tasks)

\* inject_failure(machine_id); an unknown machine id changes nothing
InjectFailure(machine_id) ==
    /\ IF machine_id \in DOMAIN machines
       THEN LET out == FailureOutcome(machine_id)
            IN /\ failed_machines' = failed_machines \cup {machine_id}
               /\ machines' = out.machines
               /\ tasks' = out.tasks
       ELSE UNCHANGED <<failed_machines, machines, tasks>>
    /\ last' = [NoCall EXCEPT !.op = "inject_failure", !.before = machines]
                  @@ [machine_id |-> machine_id]
    /\ UNCHANGED <<jobs, version, transaction_log, total_commits,
                   total_conflicts, total_transactions, schedulers,
                   job_queues, sim>>

\* recover_machine(machine_id)
RecoverMachine(machine_id) ==
    /\ failed_machines' = failed_machines \ {machine_id}
    /\ last' = [NoCall EXCEPT !.op = "recover_machine", !.before = machines]
                  @@ [machine_id |-> machine_id]
    /\ UNCHANGED <<machines, jobs, tasks, version, transaction_log,
                   total_commits, total_conflicts, total_transactions,
                   schedulers, job_queues, sim>>

\* a loaded cell state (both machines added, j1 and j2 registered) with a
\* FailureSimulator on it
FailureInit ==
    /\ machines = [m \in MachineIds |-> NewMachine(m)]
    /\ jobs = JobIds
    /\ tasks = [t \in TaskIds |-> [assigned_machine |-> None]]
    /\ version = 0
    /\ transaction_log = <<>>
    /\ total_commits = 0
    /\ total_conflicts = 0
    /\ total_transactions = 0
    /\ last = NoCall
    /\ schedulers = <<>>
    /\ job_queues = <<>>
    /\ sim = NoSimulator
    /\ failed_machines = {}

\* the clients of the cell state commit and release while machines fail
\* and recover
FailureNext ==
    \/ \E txn \in Transactions, incremental \in BOOLEAN :
          CommitTransaction(txn, incremental)
    \/ \E t \in TaskIds : ReleaseTask(t)
    \/ \E m \in MachineIds \cup {"m3"} : InjectFailure(m)
    \/ \E m \in MachineIds : RecoverMachine(m)

FailureSpec == FailureInit /\ [][FailureNext]_vars

-----------------------------------------------------------------------------
(* C26, C27: machine failures *)

\* C26: from inject_failure(m) until recover_machine(m) the machine m is
\* absent from every snapshot get_snapshot returns, and no placement on m
\* is committed while it is marked failed.
C26_FailedMachineIsNotOffered ==
    [][/\ \A m \in failed_machines' : m \notin DOMAIN get_snapshot'.machines
       /\ Committing =>
             \A m \in failed_machines :
                machines'[m].tasks \subseteq machines[m].tasks]_vars

\* inject_failure(m) is called in this step
Failing(m) ==
    /\ last'.op = "inject_failure"
    /\ last'.machine_id = m

\* recover_machine(m) is called in this step
Recovering(m) ==
    /\ last'.op = "recover_machine"
    /\ last'.machine_id = m

\* C27: inject_failure(m) on a known machine releases every task on m:
\* afterwards m.tasks is empty, the allocations of m are 0, the tasks that
\* were on m are unassigned, m is in failed_machines and the allocations of
\* no other machine have changed.  recover_machine(m) takes m out of
\* failed_machines and changes nothing else.
C27_FailureReleasesTheMachine ==
    [][\A m \in MachineIds :
          /\ Failing(m) =>
                /\ machines'[m].tasks = {}
                /\ machines'[m].allocated_cpu = 0
                /\ machines'[m].allocated_gpu = 0
                /\ machines'[m].allocated_memory = 0
                /\ \A t \in machines[m].tasks :
                      t \in DOMAIN tasks' => tasks'[t].assigned_machine = None
                /\ m \in failed_machines'
                /\ \A o \in MachineIds \ {m} :
                      /\ machines'[o].allocated_cpu = machines[o].allocated_cpu
                      /\ machines'[o].allocated_gpu = machines[o].allocated_gpu
                      /\ machines'[o].allocated_memory
                            = machines[o].allocated_memory
          /\ Recovering(m) =>
                /\ failed_machines' = failed_machines \ {m}
                /\ machines' = machines
                /\ tasks' = tasks
                /\ version' = version]_vars

-----------------------------------------------------------------------------
(* The scheduler strategies: base_scheduler.py, batch_scheduler.py,         *)
(* service_scheduler.py and mapreduce_scheduler.py.  ServiceScheduler has  *)
(* its default failure_domains (every machine is its own domain).          *)

\* a scheduler class with the placement_strategy of a BatchScheduler and the
\* policy of a MapReduceScheduler
Kind(class, placement_strategy, policy) ==
    [class |-> class, placement_strategy |-> placement_strategy,
     policy |-> policy]

\* the scheduler classes with their BatchScheduler.placement_strategy and
\* MapReduceScheduler.policy
SchedulerKinds ==
    {Kind("FirstFitScheduler", None, None),
     Kind("RandomScheduler", None, None),
     Kind("BatchScheduler", "first_fit", None),
     Kind("BatchScheduler", "best_fit", None),
     Kind("BatchScheduler", "worst_fit", None),
     Kind("WeightedRoundRobinScheduler", None, None),
     Kind("ServiceScheduler", None, None),
     Kind("MapReduceScheduler", None, "max_parallelism"),
     Kind("MapReduceScheduler", None, "global_cap"),
     Kind("MapReduceScheduler", None, "relative_job_size"),
     Kind("PriorityScheduler", None, None)}

\* machine.can_fit(task.cpu_req, task.gpu_req, task.memory_req)
Fits(machine, t) ==
    can_fit(machine, TaskSpec[t].cpu_req, TaskSpec[t].gpu_req,
            TaskSpec[t].memory_req)

\* for machine in order: if machine.can_fit(..): the first machine of the
\* sequence that fits the task, None when none fits
FirstFitting(order, t, snapshot_machines) ==
    LET fits == {i \in 1..Len(order) : Fits(snapshot_machines[order[i]], t)}
    IN IF fits = {} THEN None
       ELSE order[CHOOSE i \in fits : \A k \in fits : i <= k]

\* random.shuffle(machines): the orders the machines can be put in
Shuffles ==
    {order \in [1..Len(MachineOrder) -> Range(MachineOrder)] :
        Range(order) = Range(MachineOrder)}

\* a score: a number or float('inf')
Finite(n) == [finite |-> TRUE, value |-> n]

Infinity == [finite |-> FALSE, value |-> 0]

\* a < b and a > b for scores
LessThan(a, b) == a.finite /\ (~b.finite \/ a.value < b.value)

GreaterThan(a, b) == LessThan(b, a)

\* BatchScheduler.select_machine, the loop over snapshot.machines from
\* position i with the best machine and the best score found so far
RECURSIVE batch_select(_, _, _, _, _, _)
batch_select(placement_strategy, t, snapshot_machines, i, best_machine, best_score) ==
    IF i > Len(MachineOrder) THEN best_machine
    ELSE LET machine == snapshot_machines[MachineOrder[i]]
             waste == Finite(available_cpu(machine) - TaskSpec[t].cpu_req
                                + available_memory(machine)
                                - TaskSpec[t].memory_req)
             remaining == Finite(available_cpu(machine)
                                    + available_memory(machine))
         IN IF ~Fits(machine, t)
            THEN batch_select(placement_strategy, t, snapshot_machines, i + 1,
                              best_machine, best_score)
            ELSE IF placement_strategy = "first_fit"
            THEN MachineOrder[i]
            ELSE IF placement_strategy = "best_fit" /\ LessThan(waste, best_score)
            THEN batch_select(placement_strategy, t, snapshot_machines, i + 1,
                              MachineOrder[i], waste)
            ELSE IF /\ placement_strategy = "worst_fit"
                    /\ GreaterThan(remaining, best_score)
            THEN batch_select(placement_strategy, t, snapshot_machines, i + 1,
                              MachineOrder[i], remaining)
            ELSE batch_select(placement_strategy, t, snapshot_machines, i + 1,
                              best_machine, best_score)

\* BatchScheduler.select_machine: best_machine = None, best_score = inf
BatchScheduler_select_machine(placement_strategy, t, snapshot_machines) ==
    batch_select(placement_strategy, t, snapshot_machines, 1, None, Infinity)

\* sorted(snapshot.machines.values(), key = available_cpu, reverse = True):
\* the machine goes behind the machines with at least its available cpu
\* (the sort keeps the order of equal machines)
InsertByAvailableCpu(sorted, m, snapshot_machines) ==
    LET before == {i \in 1..Len(sorted) :
                      available_cpu(snapshot_machines[sorted[i]])
                         >= available_cpu(snapshot_machines[m])}
    IN SeqFilter(sorted, before) \o <<m>>
           \o SeqFilter(sorted, (1..Len(sorted)) \ before)

RECURSIVE SortedByAvailableCpu(_, _)
SortedByAvailableCpu(order, snapshot_machines) ==
    IF order = <<>> THEN <<>>
    ELSE InsertByAvailableCpu(
             SortedByAvailableCpu(SubSeq(order, 1, Len(order) - 1),
                                  snapshot_machines),
             order[Len(order)], snapshot_machines)

\* PriorityScheduler.select_machine
PriorityScheduler_select_machine(t, snapshot_machines) ==
    FirstFitting(SortedByAvailableCpu(MachineOrder, snapshot_machines), t,
                 snapshot_machines)

\* PriorityScheduler._find_preemptable_machine: the first machine whose
\* cpu_cores and memory_gb cover the task
find_preemptable_machine(t, snapshot_machines) ==
    LET able == {i \in 1..Len(MachineOrder) :
                    /\ snapshot_machines[MachineOrder[i]].cpu_cores
                          >= TaskSpec[t].cpu_req
                    /\ snapshot_machines[MachineOrder[i]].memory_gb
                          >= TaskSpec[t].memory_req}
    IN IF able = {} THEN None
       ELSE MachineOrder[CHOOSE i \in able : \A k \in able : i <= k]

\* WeightedRoundRobinScheduler.schedule_job, the while loop from
\* current_index: the machine taken (None after a whole round without a
\* fit) and the current_index it leaves.  current_index is only read modulo
\* len(machines); the model keeps that remainder.
RECURSIVE round_robin(_, _, _, _)
round_robin(t, snapshot_machines, current_index, attempts) ==
    IF attempts >= Len(MachineOrder)
    THEN [machine_id |-> None, current_index |-> current_index]
    ELSE LET m == MachineOrder[(current_index % Len(MachineOrder)) + 1]
             next == (current_index + 1) % Len(MachineOrder)
         IN IF Fits(snapshot_machines[m], t)
            THEN [machine_id |-> m, current_index |-> next]
            ELSE round_robin(t, snapshot_machines, next, attempts + 1)

\* ServiceScheduler._score_machines: the score of a machine is
\*   (cpu_avail + mem_avail) / 2 * 100 - 5 * len(machine.tasks) + boost
\* with cpu_avail = available_cpu / cpu_cores, mem_avail = available_memory
\* / memory_gb, and boost = 50 for a machine with a gpu when a task of the
\* job asks for one (the failure domain term is 0 with the default
\* failure_domains).  The score is the fraction ScoreNum / ScoreDen.
ScoreNum(machine, job) ==
    LET boost == IF /\ \E t \in Range(JobSpec[job].tasks) : TaskSpec[t].gpu_req > 0
                    /\ machine.gpu_count > 0
                 THEN 50 ELSE 0
    IN 50 * (available_cpu(machine) * machine.memory_gb
                + available_memory(machine) * machine.cpu_cores)
       + (boost - 5 * Cardinality(machine.tasks))
            * machine.cpu_cores * machine.memory_gb

ScoreDen(machine) == machine.cpu_cores * machine.memory_gb

\* the score of machine a is at least the score of machine b
ScoreAtLeast(a, b, job) ==
    ScoreNum(a, job) * ScoreDen(b) >= ScoreNum(b, job) * ScoreDen(a)

\* sorted(machine_scores.items(), key = score, reverse = True): the machine
\* goes behind the machines with at least its score
InsertByScore(sorted, m, snapshot_machines, job) ==
    LET before == {i \in 1..Len(sorted) :
                      ScoreAtLeast(snapshot_machines[sorted[i]],
                                   snapshot_machines[m], job)}
    IN SeqFilter(sorted, before) \o <<m>>
           \o SeqFilter(sorted, (1..Len(sorted)) \ before)

RECURSIVE SortedByScore(_, _, _)
SortedByScore(order, snapshot_machines, job) ==
    IF order = <<>> THEN <<>>
    ELSE InsertByScore(
             SortedByScore(SubSeq(order, 1, Len(order) - 1),
                           snapshot_machines, job),
             order[Len(order)], snapshot_machines, job)

\* ServiceScheduler._check_constraints: no constraint of the task fails on
\* the machine; machine_type is not looked at
check_constraints(t, machine) ==
    LET c == TaskSpec[t].constraints
    IN /\ "min_cpu" \in c.keys => machine.cpu_cores >= c.min_cpu
       /\ "min_memory" \in c.keys => machine.memory_gb >= c.min_memory
       /\ "requires_gpu" \in c.keys =>
              ~(c.requires_gpu /\ machine.gpu_count = 0)

\* a selection without anti-affinity: the first machine in score order that
\* fits the task and meets its constraints
select_machine_NoAntiAffinity(t, sorted_machines, placed_domains, snapshot_machines) ==
    LET free == {i \in 1..Len(sorted_machines) :
                    /\ Fits(snapshot_machines[sorted_machines[i]], t)
                    /\ TaskSpec[t].constraints.keys # {} =>
                          check_constraints(t,
                              snapshot_machines[sorted_machines[i]])}
    IN IF free # {}
       THEN sorted_machines[CHOOSE i \in free : \A k \in free : i <= k]
       ELSE FirstFitting(sorted_machines, t, snapshot_machines)

\* ServiceScheduler._select_machine_with_constraints: the first machine in
\* score order that fits the task, meets its constraints (when it has any)
\* and whose failure domain (the machine itself) is not among
\* placed_domains while there are fewer placed domains than machines;
\* failing that, the first machine that fits
select_machine_with_constraints(t, sorted_machines, placed_domains, snapshot_machines) ==
    LET free == {i \in 1..Len(sorted_machines) :
                    /\ Fits(snapshot_machines[sorted_machines[i]], t)
                    /\ TaskSpec[t].constraints.keys # {} =>
                          check_constraints(t,
                              snapshot_machines[sorted_machines[i]])
                    /\ ~(/\ sorted_machines[i] \in placed_domains
                          /\ Cardinality(placed_domains)
                                < Cardinality(DOMAIN snapshot_machines))}
    IN IF free # {}
       THEN sorted_machines[CHOOSE i \in free : \A k \in free : i <= k]
       ELSE FirstFitting(sorted_machines, t, snapshot_machines)

\* sorted(snapshot.machines.values(), key = (available_cpu,
\* available_memory), reverse = True) of MapReduceScheduler.select_machine
InsertByAvailable(sorted, m, snapshot_machines) ==
    LET least(a, b) ==
            \/ available_cpu(a) > available_cpu(b)
            \/ /\ available_cpu(a) = available_cpu(b)
               /\ available_memory(a) >= available_memory(b)
        before == {i \in 1..Len(sorted) :
                      least(snapshot_machines[sorted[i]], snapshot_machines[m])}
    IN SeqFilter(sorted, before) \o <<m>>
           \o SeqFilter(sorted, (1..Len(sorted)) \ before)

RECURSIVE SortedByAvailable(_, _)
SortedByAvailable(order, snapshot_machines) ==
    IF order = <<>> THEN <<>>
    ELSE InsertByAvailable(
             SortedByAvailable(SubSeq(order, 1, Len(order) - 1),
                               snapshot_machines),
             order[Len(order)], snapshot_machines)

\* MapReduceScheduler.select_machine
MapReduceScheduler_select_machine(t, snapshot_machines) ==
    FirstFitting(SortedByAvailable(MachineOrder, snapshot_machines), t,
                 snapshot_machines)

\* min of a set of numbers
Min(S) == CHOOSE x \in S : \A y \in S : x <= y

\* int(a / b) for b > 0: the quotient without its fraction
IntDiv(a, b) == IF a >= 0 THEN a \div b ELSE 0 - ((0 - a) \div b)

\* seq[:n]: the first n elements, all of them when n is larger, all but the
\* last -n when n is negative
Prefix(seq, n) ==
    IF n >= 0 THEN SubSeq(seq, 1, Min({n, Len(seq)}))
    ELSE SubSeq(seq, 1, Len(seq) + n)

\* MapReduceScheduler._calculate_utilization and _get_available_resources:
\* the totals of the snapshot the policies read
SnapshotTotals(snapshot_machines) ==
    LET sum(f(_)) == SumOver(DOMAIN snapshot_machines,
                             [m \in DOMAIN snapshot_machines |->
                                 f(snapshot_machines[m])])
        cores(machine) == machine.cpu_cores
        gb(machine) == machine.memory_gb
        used_cpu(machine) == machine.allocated_cpu
        used_mem(machine) == machine.allocated_memory
    IN [total_cpu |-> sum(cores), total_mem |-> sum(gb),
        used_cpu |-> sum(used_cpu), used_mem |-> sum(used_mem),
        cpu |-> sum(available_cpu), memory |-> sum(available_memory)]

\* avg_util > self.target_utilization of the global_cap policy, with
\* avg_util = (used_cpu / total_cpu + used_mem / total_mem) / 2 and
\* target_utilization = 0.6
AboveTarget(totals) ==
    5 * (totals.used_cpu * totals.total_mem + totals.used_mem * totals.total_cpu)
        > 6 * totals.total_cpu * totals.total_mem

\* MapReduceScheduler._calculate_optimal_workers.  Under global_cap the
\* scaled count int(base_workers * (1.0 + (0.6 - avg_util) * 5)) is the
\* whole part of base_workers * (8 T - 5 U) / (2 T) with T = total_cpu *
\* total_mem and U = used_cpu * total_mem + used_mem * total_cpu (for the
\* jobs here, of one or two tasks, the float product has that whole part).
calculate_optimal_workers(policy, job, snapshot_machines) ==
    LET job_tasks == JobSpec[job].tasks
        base_workers == Len(job_tasks)
        totals == SnapshotTotals(snapshot_machines)
        task == TaskSpec[job_tasks[1]]
        max_by_cpu == IF task.cpu_req > 0
                      THEN IntDiv(totals.cpu, task.cpu_req)
                      ELSE base_workers
        max_by_mem == IF task.memory_req > 0
                      THEN IntDiv(totals.memory, task.memory_req)
                      ELSE base_workers
        T == totals.total_cpu * totals.total_mem
        U == totals.used_cpu * totals.total_mem
                + totals.used_mem * totals.total_cpu
    IN IF policy = "max_parallelism"
       THEN IF job_tasks = <<>> THEN 0
            ELSE Min({max_by_cpu, max_by_mem, base_workers * 10})
       ELSE IF policy = "global_cap"
       THEN IF AboveTarget(totals) THEN base_workers
            ELSE IntDiv(base_workers * (8 * T - 5 * U), 2 * T)
       ELSE IF policy = "relative_job_size"
       THEN IF job_tasks = <<>> THEN 0
            ELSE Min({Min({max_by_cpu, max_by_mem}), base_workers * 4})
       ELSE base_workers

\* a schedule_job that walks all of job.tasks
TasksToSchedule_All(kind, job, snapshot_machines) == JobSpec[job].tasks

\* the tasks schedule_job walks: job.tasks, or job.tasks[:optimal_workers]
\* for MapReduceScheduler
TasksToSchedule(kind, job, snapshot_machines) ==
    IF kind.class = "MapReduceScheduler"
    THEN Prefix(JobSpec[job].tasks,
                calculate_optimal_workers(kind.policy, job, snapshot_machines))
    ELSE JobSpec[job].tasks

\* the order schedule_job walks the machines in: the shuffle of
\* RandomScheduler, the score order ServiceScheduler computes when the call
\* starts, the order of the snapshot for the other classes
WalkOrders(kind, job, snapshot_machines) ==
    IF kind.class = "RandomScheduler" THEN Shuffles
    ELSE IF kind.class = "ServiceScheduler"
    THEN {SortedByScore(MachineOrder, snapshot_machines, job)}
    ELSE {MachineOrder}

\* the machine the scheduler of this kind selects for the task, and the
\* current_index it is left with; order is the order of WalkOrders,
\* placed_domains the machines the call has placed tasks on
Select(kind, order, t, snapshot_machines, current_index, placed_domains) ==
    IF kind.class = "WeightedRoundRobinScheduler"
    THEN round_robin(t, snapshot_machines, current_index, 0)
    ELSE [machine_id |->
             IF kind.class = "FirstFitScheduler"
             THEN select_machine(t, snapshot_machines)
             ELSE IF kind.class = "RandomScheduler"
             THEN FirstFitting(order, t, snapshot_machines)
             ELSE IF kind.class = "BatchScheduler"
             THEN BatchScheduler_select_machine(kind.placement_strategy, t,
                                                snapshot_machines)
             ELSE IF kind.class = "ServiceScheduler"
             THEN select_machine_with_constraints(t, order, placed_domains,
                                                  snapshot_machines)
             ELSE IF kind.class = "MapReduceScheduler"
             THEN MapReduceScheduler_select_machine(t, snapshot_machines)
             ELSE PriorityScheduler_select_machine(t, snapshot_machines),
          current_index |-> current_index]

\* schedule_job of the scheduler classes, the loop over job.tasks: a task
\* that is already assigned is passed over; a task with a machine is placed
\* with the version of that machine in the snapshot and reserved there;
\* PriorityScheduler (preemption_enabled) places a task without a machine
\* on the machine of _find_preemptable_machine and reserves nothing.
RECURSIVE plan_tasks(_, _, _, _, _, _, _)
plan_tasks(kind, order, job_tasks, snapshot_machines, txn, ts, current_index) ==
    IF job_tasks = <<>>
    THEN [machines |-> snapshot_machines, transaction |-> txn,
          current_index |-> current_index]
    ELSE LET t == Head(job_tasks)
             sel == Select(kind, order, t, snapshot_machines, current_index,
                           TouchedMachines(txn.placements))
             pre == find_preemptable_machine(t, snapshot_machines)
         IN IF ts[t].assigned_machine # None
            THEN plan_tasks(kind, order, Tail(job_tasks), snapshot_machines,
                            txn, ts, current_index)
            ELSE IF sel.machine_id # None
            THEN plan_tasks(
                     kind, order, Tail(job_tasks),
                     [snapshot_machines EXCEPT ![sel.machine_id] = Reserve(@, t)],
                     add_placement(txn, t, sel.machine_id,
                                   snapshot_machines[sel.machine_id].version),
                     ts, sel.current_index)
            ELSE IF kind.class = "PriorityScheduler" /\ pre # None
            THEN plan_tasks(
                     kind, order, Tail(job_tasks), snapshot_machines,
                     add_placement(txn, t, pre,
                                   snapshot_machines[pre].version),
                     ts, sel.current_index)
            ELSE plan_tasks(kind, order, Tail(job_tasks), snapshot_machines,
                            txn, ts, sel.current_index)

\* attempt_schedule lines 55-60 with the schedule_job of the scheduler's
\* class: no transaction or no placements returns False
PlanJob(s) ==
    /\ schedulers[s].pc = "schedule"
    /\ \E order \in WalkOrders(schedulers[s].kind, schedulers[s].job,
                               schedulers[s].snapshot.machines) :
          LET out == plan_tasks(schedulers[s].kind, order,
                                TasksToSchedule(schedulers[s].kind,
                                                schedulers[s].job,
                                                schedulers[s].snapshot.machines),
                                schedulers[s].snapshot.machines,
                                NewTransaction(s), tasks,
                                schedulers[s].current_index)
          IN schedulers' = [schedulers EXCEPT ![s] =
                 IF out.transaction.placements = <<>>
                 THEN [@ EXCEPT !.pc = "idle", !.returned = FALSE,
                                !.snapshot = None,
                                !.transaction = NoTransaction,
                                !.current_index = out.current_index]
                 ELSE [@ EXCEPT !.pc = "commit",
                                !.snapshot.machines = out.machines,
                                !.transaction = out.transaction,
                                !.current_index = out.current_index]]
    /\ UNCHANGED <<machines, jobs, tasks, version, transaction_log,
                   total_commits, total_conflicts, total_transactions, last,
                   job_queues, sim, failed_machines>>

\* the queues a scheduler is given: three jobs, a job may come again
PlanQueues ==
    {<<a, b, c>> : a \in DOMAIN JobSpec, b \in DOMAIN JobSpec,
                   c \in DOMAIN JobSpec}

\* the loaded cluster with a scheduler of one of the classes that has its
\* jobs in its queue; the other scheduler has nothing to do
PlanInit ==
    /\ machines = [m \in MachineIds |-> NewMachine(m)]
    /\ jobs = DOMAIN JobSpec
    /\ tasks = [t \in DOMAIN TaskSpec |-> [assigned_machine |-> None]]
    /\ version = 0
    /\ transaction_log = <<>>
    /\ total_commits = 0
    /\ total_conflicts = 0
    /\ total_transactions = 0
    /\ last = NoCall
    /\ \E kind \in SchedulerKinds :
          schedulers = [s \in SimSchedulerIds |->
                           NewScheduler @@ [kind |-> kind, current_index |-> 0]]
    /\ \E queue \in PlanQueues :
          job_queues = [s \in SimSchedulerIds |->
                           IF s = "scheduler1" THEN queue ELSE <<>>]
    /\ sim = NoSimulator
    /\ failed_machines = {}

PlanNext ==
    \/ \E s \in SimSchedulerIds : StartJob(s)
    \/ \E s \in SimSchedulerIds : GetSnapshot(s)
    \/ \E s \in SimSchedulerIds : PlanJob(s)
    \/ \E s \in SimSchedulerIds : Commit(s)
    \/ \E t \in DOMAIN TaskSpec : TaskCompletes(t)

PlanSpec == PlanInit /\ [][PlanNext]_vars

-----------------------------------------------------------------------------
(* C28 - C30: schedule_job and select_machine of the scheduler classes *)

\* scheduler s runs schedule_job in this step: schedulers[s].snapshot is the
\* snapshot the call is given, schedulers'[s].transaction what it emits
Planning(s) ==
    /\ schedulers[s].pc = "schedule"
    /\ schedulers'[s].pc # "schedule"

\* the summed demand of the placements of txn on machine m
DemandOn(txn, m) ==
    LET On == PositionsOn(txn, m)
    IN [cpu |-> SumOver(On, [i \in On |-> CpuReq(txn.placements[i].task)]),
        gpu |-> SumOver(On, [i \in On |-> GpuReq(txn.placements[i].task)]),
        memory |-> SumOver(On, [i \in On |-> MemoryReq(txn.placements[i].task)])]

\* C28: for every scheduler class the placements one schedule_job call
\* emits never double-book a machine: on each machine their summed cpu, gpu
\* and memory demand is within the free capacity the machine had in the
\* snapshot when schedule_job was called.
C28_PlanStaysWithinSnapshot ==
    [][\A s \in SimSchedulerIds :
          Planning(s) =>
             \A m \in MachineIds :
                LET machine == schedulers[s].snapshot.machines[m]
                    demand  == DemandOn(schedulers'[s].transaction, m)
                IN /\ demand.cpu <= available_cpu(machine)
                   /\ demand.gpu <= available_gpu(machine)
                   /\ demand.memory <= available_memory(machine)]_vars

\* C29: for every scheduler class schedule_job emits no placement for a
\* task whose assigned_machine is set (in the cell and in the snapshot),
\* places only tasks of the job and each at most once, binds the
\* transaction to the scheduler's own id, and records for every placed
\* machine the version the machine has in the snapshot, which is the
\* authoritative version of the moment the snapshot was taken: planning
\* leaves the versions of the snapshot machines alone.
C29_PlanIsWellFormed ==
    [][\A s \in SimSchedulerIds :
          /\ (schedulers[s].pc = "snapshot" /\ schedulers'[s].pc = "schedule")
                => \A m \in MachineIds :
                      schedulers'[s].snapshot.machines[m].version
                         = machines[m].version
          /\ (Planning(s) /\ schedulers'[s].pc = "commit") =>
                LET txn  == schedulers'[s].transaction
                    snap == schedulers[s].snapshot
                IN /\ txn.placements # <<>>
                   /\ txn.scheduler_id = s
                   /\ \A i \in Positions(txn) :
                         /\ txn.placements[i].task
                               \in Range(JobSpec[schedulers[s].job].tasks)
                         /\ tasks[txn.placements[i].task].assigned_machine = None
                         /\ snap.tasks[txn.placements[i].task].assigned_machine
                               = None
                         /\ \A k \in Positions(txn) :
                               txn.placements[k].task = txn.placements[i].task
                                  => k = i
                   /\ DOMAIN txn.machine_versions = TouchedMachines(txn.placements)
                   /\ \A m \in TouchedMachines(txn.placements) :
                         /\ txn.machine_versions[m] = snap.machines[m].version
                         /\ schedulers'[s].snapshot.machines[m].version
                               = snap.machines[m].version]_vars

\* a scheduler has planned the rest of a job that is placed in part: j3
\* with t3 on a machine, and a transaction for t4 alone
C29_Witness ==
    \E s \in SimSchedulerIds :
        /\ schedulers[s].pc = "commit"
        /\ schedulers[s].job = "j3"
        /\ tasks["t3"].assigned_machine # None
        /\ Len(schedulers[s].transaction.placements) = 1
        /\ schedulers[s].transaction.placements[1].task = "t4"

\* the first task of the job that schedule_job selects a machine for
FirstUnassigned(job) ==
    LET open == {i \in DOMAIN JobSpec[job].tasks :
                    tasks[JobSpec[job].tasks[i]].assigned_machine = None}
    IN IF open = {} THEN None
       ELSE JobSpec[job].tasks[CHOOSE i \in open : \A k \in open : i <= k]

\* C30: with placement_strategy = 'worst_fit' BatchScheduler.select_machine
\* returns, whenever a machine of the snapshot fits the task, a fitting
\* machine with the largest available_cpu + available_memory among the
\* fitting machines, and None only when no machine fits.
C30_WorstFitSelectsTheEmptiest ==
    \A s \in DOMAIN schedulers :
        (/\ schedulers[s].pc = "schedule"
         /\ schedulers[s].kind = Kind("BatchScheduler", "worst_fit", None)
         /\ FirstUnassigned(schedulers[s].job) # None)
           => LET t == FirstUnassigned(schedulers[s].job)
                  ms == schedulers[s].snapshot.machines
                  fitting == {m \in DOMAIN ms : Fits(ms[m], t)}
                  selected == BatchScheduler_select_machine("worst_fit", t, ms)
              IN IF fitting = {} THEN selected = None
                 ELSE /\ selected \in fitting
                      /\ \A m \in fitting :
                            available_cpu(ms[selected])
                               + available_memory(ms[selected])
                            >= available_cpu(ms[m]) + available_memory(ms[m])

-----------------------------------------------------------------------------
(* C31 - C34: ServiceScheduler, PriorityScheduler and MapReduceScheduler *)

\* scheduler s of the class runs schedule_job in this step
PlanningAs(s, class) == Planning(s) /\ schedulers[s].kind.class = class

\* the machines of the snapshot when schedule_job comes to placement k of
\* the transaction: the snapshot the call was given with the reservations
\* of the placements before k that fitted their machine
RECURSIVE SnapshotAt(_, _, _)
SnapshotAt(snapshot_machines, placements, k) ==
    IF k <= 1 THEN snapshot_machines
    ELSE LET before == SnapshotAt(snapshot_machines, placements, k - 1)
             p == placements[k - 1]
         IN IF Fits(before[p.machine_id], p.task)
            THEN [before EXCEPT ![p.machine_id] = Reserve(@, p.task)]
            ELSE before

\* the machines of the placements before placement k
DomainsBefore(placements, k) ==
    {placements[i].machine_id : i \in 1..(k - 1)}

\* the machine has what the constraints of the task ask for
Satisfies(machine, t) ==
    LET c == TaskSpec[t].constraints
    IN /\ "min_cpu" \in c.keys => machine.cpu_cores >= c.min_cpu
       /\ "min_memory" \in c.keys => machine.memory_gb >= c.min_memory
       /\ ("requires_gpu" \in c.keys /\ c.requires_gpu)
             => machine.gpu_count > 0

C32_PlacementMeetsConstraints ==
    [][\A s \in SimSchedulerIds :
          PlanningAs(s, "ServiceScheduler") =>
             LET placements == schedulers'[s].transaction.placements
             IN \A k \in DOMAIN placements :
                   Satisfies(schedulers[s].snapshot.machines[
                                 placements[k].machine_id],
                             placements[k].task)]_vars

\* C33: PriorityScheduler places a task through _find_preemptable_machine
\* only when no machine of the snapshot fits the task at that moment, and
\* the machine of such a placement has the total capacity for the task in
\* every dimension: cpu_cores >= cpu_req, gpu_count >= gpu_req and
\* memory_gb >= memory_req.  (A placement select_machine made fits its
\* machine; a placement that does not fit its machine is the hook's.)
C33_PreemptionHook ==
    [][\A s \in SimSchedulerIds :
          PlanningAs(s, "PriorityScheduler") =>
             LET placements == schedulers'[s].transaction.placements
             IN \A k \in DOMAIN placements :
                   LET t == placements[k].task
                       at == SnapshotAt(schedulers[s].snapshot.machines,
                                        placements, k)
                       machine == at[placements[k].machine_id]
                   IN ~Fits(machine, t) =>
                         /\ \A m \in DOMAIN at : ~Fits(at[m], t)
                         /\ machine.cpu_cores >= TaskSpec[t].cpu_req
                         /\ machine.gpu_count >= TaskSpec[t].gpu_req
                         /\ machine.memory_gb >= TaskSpec[t].memory_req]_vars

\* C34: MapReduceScheduler.schedule_job emits at most optimal_workers
\* placements, each for a task of job.tasks and no task twice, where
\* optimal_workers is the value its policy computes from the snapshot:
\* under max_parallelism min(floor(avail_cpu / cpu_req), floor(avail_mem /
\* mem_req), 10 * |job.tasks|) with the requirements of the first task,
\* under global_cap |job.tasks| when the average of the cpu and memory
\* utilization is above target_utilization.
C34_AtMostOptimalWorkers ==
    [][\A s \in SimSchedulerIds :
          PlanningAs(s, "MapReduceScheduler") =>
             LET placements == schedulers'[s].transaction.placements
                 policy == schedulers[s].kind.policy
                 job_tasks == JobSpec[schedulers[s].job].tasks
                 snapshot_machines == schedulers[s].snapshot.machines
                 totals == SnapshotTotals(snapshot_machines)
                 first == TaskSpec[job_tasks[1]]
             IN /\ Len(placements)
                      <= calculate_optimal_workers(policy, schedulers[s].job,
                                                   snapshot_machines)
                /\ policy = "max_parallelism" =>
                      /\ Len(placements) <= totals.cpu \div first.cpu_req
                      /\ Len(placements) <= totals.memory \div first.memory_req
                      /\ Len(placements) <= 10 * Len(job_tasks)
                      /\ calculate_optimal_workers(policy, schedulers[s].job,
                                                   snapshot_machines)
                            \in {totals.cpu \div first.cpu_req,
                                 totals.memory \div first.memory_req,
                                 10 * Len(job_tasks)}
                /\ (policy = "global_cap"
                      /\ 5 * (totals.used_cpu * totals.total_mem
                                 + totals.used_mem * totals.total_cpu)
                           > 6 * totals.total_cpu * totals.total_mem) =>
                      /\ calculate_optimal_workers(policy, schedulers[s].job,
                                                   snapshot_machines)
                            = Len(job_tasks)
                      /\ Len(placements) <= Len(job_tasks)
                /\ \A k \in DOMAIN placements :
                      /\ placements[k].task \in Range(job_tasks)
                      /\ \A i \in DOMAIN placements :
                            placements[i].task = placements[k].task => i = k]_vars

\* a MapReduceScheduler with the max_parallelism policy has returned
\* without a placement for j5: the free cpu of the cluster is less than
\* the cpu of t7, the first task, so optimal_workers is 0 and t8, which a
\* machine could take, is not looked at
C34_Witness ==
    \E s \in SimSchedulerIds :
        /\ schedulers[s].kind = Kind("MapReduceScheduler", None, "max_parallelism")
        /\ schedulers[s].pc = "idle"
        /\ schedulers[s].job = "j5"
        /\ tasks["t8"].assigned_machine = None
        /\ SnapshotTotals(machines).cpu < TaskSpec["t7"].cpu_req
        /\ \E m \in DOMAIN machines : Fits(machines[m], "t8")
        /\ schedulers[s].returned = FALSE

-----------------------------------------------------------------------------
(* C35 - C37: virtual time, conflicts and completions in the simulator *)

\* C35: processing a job consumes virtual time: when a scheduler process
\* passes a job to attempt_schedule after it has processed another job, the
\* clock is strictly later than it was when that job was processed.
C35_NextJobStrictlyLater ==
    [][\A s \in SimSchedulerIds :
          (Attempting(s) /\ sim.processed[s].jobs > 0)
             => sim.now > sim.processed[s].at]_vars

\* the last call was a commit_transaction that met a stale snapshot: a
\* machine of the transaction no longer had the version the transaction
\* recorded for it
StaleCommit ==
    /\ last.op = "commit_transaction"
    /\ \E m \in DOMAIN last.txn.machine_versions :
          last.txn.machine_versions[m] # last.before[m].version

\* every commit_transaction of a simulator run finds the versions its
\* transaction recorded
CommitsSeeFreshVersions == ~StaleCommit

\* C36: in a run with two schedulers that work at the same time towards the
\* same machine there are stale-snapshot conflicts: in scenario S6 with the
\* two jobs, which arrive together, in the queues of different schedulers,
\* a commit is rejected for the version it recorded, so total_conflicts is
\* not 0 when the run ends.
C36_StaleConflictsOccur ==
    (/\ sim.name = "S6"
     /\ sim.ended
     /\ sim.added[1].scheduler_id # sim.added[2].scheduler_id)
        => total_conflicts > 0

\* the runs in which a job is given to add_job_arrival twice: at 0 and
\* again at 0.2 s, while its tasks run, or at 1.2 s, after they were
\* released
ResubmitScenarios ==
    {[name |-> "resubmitted", machines |-> [m \in MachineIds |-> NewMachine(m)],
      simulation_time |-> 30,
      job_arrival_events |->
          <<[arrival_time |-> 0, job |-> job, scheduler_id |-> a],
            [arrival_time |-> again, job |-> job, scheduler_id |-> b]>>] :
        job \in {"j3", "j4"}, again \in {2, 12},
        a \in SimSchedulerIds, b \in SimSchedulerIds}

ResubmitInit == \E sc \in ResubmitScenarios : SimStart(sc)

ResubmitSpec == ResubmitInit /\ [][SimNext]_vars

\* C37: each job is appended to completed_jobs at most once during a run:
\* no two entries of completed_jobs are for the same job.
C37_CompletedAtMostOnce ==
    \A i \in DOMAIN sim.completed_jobs :
        \A k \in DOMAIN sim.completed_jobs :
            sim.completed_jobs[i].job = sim.completed_jobs[k].job => i = k

-----------------------------------------------------------------------------
(* Schedulers of any classes working on one CellState at the same time,   *)
(* as its lock provides for: every scheduler has its own jobs (main.py)    *)
(* and runs attempt_schedule on them while the other does, and the tasks   *)
(* of scheduled jobs complete in between.                                  *)

\* the jobs of the run, in the order they are given to the schedulers
ConcJobs == <<"j2", "j3", "j4">>

\* the classes of the schedulers of a run: the first of any class, the
\* second a first-fit or a priority scheduler
ConcKinds ==
    {kinds \in [SimSchedulerIds -> SchedulerKinds] :
        kinds["scheduler2"] \in {Kind("FirstFitScheduler", None, None),
                                 Kind("PriorityScheduler", None, None)}}

\* the queue of scheduler s when f says which scheduler a job is given to
ConcQueueOf(f, s) ==
    SeqFilter(ConcJobs, {i \in DOMAIN ConcJobs : f[ConcJobs[i]] = s})

\* the ways to give the jobs to the schedulers: each scheduler has a job
ConcSplits ==
    {f \in [Range(ConcJobs) -> SimSchedulerIds] :
        \A s \in SimSchedulerIds : \E job \in Range(ConcJobs) : f[job] = s}

\* the loaded cluster, every job registered with add_job and in the queue
\* of one scheduler, each scheduler of one of the classes
ConcInit ==
    /\ machines = [m \in MachineIds |-> NewMachine(m)]
    /\ jobs = DOMAIN JobSpec
    /\ tasks = [t \in DOMAIN TaskSpec |-> [assigned_machine |-> None]]
    /\ version = 0
    /\ transaction_log = <<>>
    /\ total_commits = 0
    /\ total_conflicts = 0
    /\ total_transactions = 0
    /\ last = NoCall
    /\ \E kinds \in ConcKinds :
          schedulers = [s \in SimSchedulerIds |->
                           NewScheduler @@ [kind |-> kinds[s],
                                            current_index |-> 0]]
    /\ \E f \in ConcSplits :
          job_queues = [s \in SimSchedulerIds |-> ConcQueueOf(f, s)]
    /\ sim = NoSimulator
    /\ failed_machines = {}

ConcSpec == ConcInit /\ [][PlanNext]_vars

-----------------------------------------------------------------------------
(* C38 - C40: concurrent attempt_schedule calls *)

\* no scheduler of the run is a PriorityScheduler: every placement the
\* schedulers emit was reserved on the snapshot
AllReserving ==
    \A s \in SimSchedulerIds : schedulers[s].kind.class # "PriorityScheduler"

\* C38: when the schedulers that never emit an unreserved placement
\* (first-fit, random, batch, weighted round-robin, service, MapReduce) run
\* attempt_schedule at the same time on distinct registered jobs, their
\* get_snapshot, schedule_job and commit_transaction steps and the
\* release_task calls interleaved in any order, no machine of the cell
\* state has more cpu, gpu or memory allocated than it has.
C38_NeverOverAllocated ==
    AllReserving =>
        \A m \in DOMAIN machines :
            /\ machines[m].allocated_cpu <= machines[m].cpu_cores
            /\ machines[m].allocated_gpu <= machines[m].gpu_count
            /\ machines[m].allocated_memory <= machines[m].memory_gb

\* two reserving schedulers have both committed, one of them after a
\* commit of its was rejected for a stale snapshot, and machine m1 has no
\* cpu left for either task of the other job
C38_Witness ==
    /\ AllReserving
    /\ \A s \in SimSchedulerIds : schedulers[s].jobs_scheduled > 0
    /\ \E s \in SimSchedulerIds :
          /\ schedulers[s].conflicts_encountered > 0
          /\ schedulers[s].jobs_scheduled > 0
    /\ machines["m1"].allocated_cpu + 2 > machines["m1"].cpu_cores

\* scheduler s takes a step of its attempt_schedule call other than the
\* commit after which the call returns True
StepWithoutSuccess(s) ==
    /\ schedulers'[s] # schedulers[s]
    /\ schedulers[s].pc \in {"snapshot", "schedule", "commit"}
    /\ schedulers'[s].pc # "raised"
    /\ ~(/\ schedulers[s].pc = "commit"
         /\ schedulers'[s].pc = "idle"
         /\ schedulers'[s].returned = TRUE)

\* C39: an attempt_schedule call that returns failure applies no placement
\* to the cell state.  Every step of a call (get_snapshot, schedule_job,
\* a commit_transaction that is retried or is the last of a failing call)
\* other than the commit after which the call returns True, and so every
\* step of a call that returns False, leaves the machines (allocations,
\* task sets, versions), every task's assigned_machine, the global version,
\* total_commits and the transaction log as they are, and jobs_scheduled and
\* tasks_scheduled of the scheduler too; total_transactions, total_conflicts
\* and conflicts_encountered do not shrink.
C39_FailureAppliesNothing ==
    [][\A s \in SimSchedulerIds :
          StepWithoutSuccess(s) =>
             /\ UNCHANGED <<machines, tasks, version, total_commits,
                            transaction_log, jobs>>
             /\ schedulers'[s].jobs_scheduled = schedulers[s].jobs_scheduled
             /\ schedulers'[s].tasks_scheduled = schedulers[s].tasks_scheduled
             /\ total_transactions' >= total_transactions
             /\ total_conflicts' >= total_conflicts
             /\ schedulers'[s].conflicts_encountered
                   >= schedulers[s].conflicts_encountered]_vars

\* attempt_schedule has just returned False after max_retries commits that
\* were rejected, while the other scheduler has placed a job
C39_Witness ==
    \E s \in SimSchedulerIds :
        /\ last.op = "commit_transaction"
        /\ last.txn.scheduler_id = s
        /\ last.conflicts # <<>>
        /\ schedulers[s].pc = "idle"
        /\ schedulers[s].attempt = max_retries - 1
        /\ total_commits > 0
        /\ total_conflicts >= max_retries
        /\ schedulers[s].returned = FALSE

\* the sum of a counter over the schedulers
SumOfCounter(counter) == SumOver(SimSchedulerIds, counter)

\* the placements a step applies to the cell state: a commit bumps the
\* version of the machine once for every placement it applies
AppliedInStep ==
    IF \E s \in SimSchedulerIds :
          schedulers[s].pc = "commit" /\ schedulers'[s].pc # "commit"
    THEN SumOver(DOMAIN machines,
                 [m \in DOMAIN machines |->
                     machines'[m].version - machines[m].version])
    ELSE 0

\* C40: when every commit is made through attempt_schedule of the
\* schedulers, on registered jobs, the counters of the schedulers agree
\* with the cell state in every reachable state: the sum of jobs_scheduled
\* is total_commits, the sum of conflicts_encountered is total_conflicts,
\* and the sum of tasks_scheduled is the number of placements ever applied
\* (it is 0 at the start and every step adds to it the number of
\* placements the step applies).
C40_CountersAgree ==
    /\ [](/\ SumOfCounter([s \in SimSchedulerIds |->
                               schedulers[s].jobs_scheduled]) = total_commits
          /\ SumOfCounter([s \in SimSchedulerIds |->
                               schedulers[s].conflicts_encountered])
                = total_conflicts)
    /\ [][SumOfCounter([s \in SimSchedulerIds |->
                           schedulers'[s].tasks_scheduled])
             = SumOfCounter([s \in SimSchedulerIds |->
                                schedulers[s].tasks_scheduled])
                  + AppliedInStep]_vars

\* a commit has just been a partial success (one placement applied, one
\* rejected) after the other scheduler committed: both schedulers have
\* counted a job, and conflicts were counted
C40_Witness ==
    \E s \in SimSchedulerIds :
        /\ last.op = "commit_transaction"
        /\ last.txn.scheduler_id = s
        /\ last.conflicts # <<>>
        /\ Len(last.conflicts) < Len(last.txn.placements)
        /\ schedulers[s].pc = "idle"
        /\ schedulers[s].tasks_scheduled > 0
        /\ \A o \in SimSchedulerIds : schedulers[o].jobs_scheduled > 0
        /\ total_conflicts > 0

=============================================================================
